---- MODULE Spec2Model ----
(***************************************************************************)
(* Model of axios-playwright-adapter: the axios adapter                    *)
(* (src/src/axios-adapter.ts), the fetch adapter (src/src/fetch-adapter.ts)*)
(* and the translation helpers they call (src/src/utils/request.ts, which  *)
(* also holds the response helpers, and src/src/utils/shared.ts).          *)
(*                                                                         *)
(* Conventions.                                                            *)
(*  - A JavaScript string that the code inspects character by character    *)
(*    (urls, methods, url-encoded bodies) is a sequence of one-character   *)
(*    strings; a string the code only copies or compares is a TLA+ string. *)
(*  - An optional string is a record [defined, chars].                     *)
(*  - A JavaScript value is a record [t, s, n, b] tagged by its type.      *)
(*  - An object's identity is a name: a config is named by the index of    *)
(*    the invocation that received it, an executor response by the index   *)
(*    of the invocation whose fetch returned it, a value the executor      *)
(*    rejects with by its name in RejectionValues, and an error the        *)
(*    adapter constructs has id "new".                                     *)
(***************************************************************************)
EXTENDS Integers, Sequences, FiniteSets, TLC

VARIABLES
    unicodeVersion,  \* the Unicode version of the runtime the adapters run in
    pipeline,        \* per invocation: "axios" | "fetch" | "unused"
    config,          \* per invocation: the InternalAxiosRequestConfig (axios)
    fetchInput,      \* per invocation: the (input, init) pair (fetch)
    adapterOptions,  \* the options captured by createPlaywrightAdapter / createPlaywrightFetch
    signalAborted,   \* per invocation: the current value of signal.aborted
    signalSeen,      \* per invocation: what the preflight check read ("unchecked" | "clear" | "aborted")
    pc,              \* per invocation: position in the async function
    fetchCalls,      \* per invocation: number of calls to requestContext.fetch
    fetchArgs,       \* per invocation: the (url, options) handed to requestContext.fetch
    execResult,      \* per invocation: how the executor settled the fetch promise
    accessorCalls,   \* per invocation: calls made to body(), text(), json() of the response
    pending,         \* per invocation: the body accessor whose promise is awaited
    outcome          \* per invocation: how the adapter's promise settled

vars == << unicodeVersion, pipeline, config, fetchInput, adapterOptions, signalAborted, signalSeen,
           pc, fetchCalls, fetchArgs, execResult, accessorCalls, pending, outcome >>

(***************************************************************************)
(* Bounds of the model.                                                    *)
(***************************************************************************)
\* Number of invocations that exist in a behaviour.
MaxCalls == 2

Calls == 1..MaxCalls

(***************************************************************************)
(* Strings as character sequences.                                         *)
(***************************************************************************)
LowerSeq == << "a", "b", "c", "d", "e", "f", "g", "h", "i", "j", "k", "l", "m",
              "n", "o", "p", "q", "r", "s", "t", "u", "v", "w", "x", "y", "z" >>
UpperSeq == << "A", "B", "C", "D", "E", "F", "G", "H", "I", "J", "K", "L", "M",
              "N", "O", "P", "Q", "R", "S", "T", "U", "V", "W", "X", "Y", "Z" >>
DigitSeq == << "0", "1", "2", "3", "4", "5", "6", "7", "8", "9" >>

Range(s) == {s[k] : k \in 1..Len(s)}
LowerLetters == Range(LowerSeq)
UpperLetters == Range(UpperSeq)
Letters == LowerLetters \cup UpperLetters
Digits == Range(DigitSeq)

\* String.prototype.includes
includes(s, sub) ==
    \E k \in 0..(Len(s) - Len(sub)) : SubSeq(s, k + 1, k + Len(sub)) = sub

RECURSIVE NatToChars(_)
\* String(n) for a natural number n
NatToChars(n) ==
    IF n < 10 THEN << DigitSeq[n + 1] >>
    ELSE NatToChars(n \div 10) \o << DigitSeq[(n % 10) + 1] >>

\* String(n) for an integer n
NumberToChars(n) == IF n < 0 THEN << "-" >> \o NatToChars(0 - n) ELSE NatToChars(n)

Some(s) == [defined |-> TRUE, chars |-> s]
Undefined == [defined |-> FALSE, chars |-> << >>]

\* `x || ''` for an optional string: undefined and '' are both falsy.
OrEmpty(o) == IF o.defined THEN o.chars ELSE << >>

\* `const name = value` followed by an expression over name: the expression
\* for the value.
With(value, Expression(_)) == Expression(value)

\* The characters of a string literal.
Chars(literal) == [k \in 1..Len(literal) |-> SubSeq(literal, k, k)]

(***************************************************************************)
(* URL resolver: isAbsoluteURL, combineURLs (shared.ts), buildUrl          *)
(* (request.ts).                                                           *)
(***************************************************************************)
\* [a-z\d+\-.] under the i flag
IsSchemeChar(c) == c \in Letters \cup Digits \cup {"+", "-", "."}

\* Mutant of isAbsoluteURL: the scheme is not optional, /^[a-z][a-z\d+\-.]*:\/\//i
isAbsoluteURLSchemeRequired(url) ==
    \E k \in 1..Len(url) :
        /\ url[1] \in Letters
        /\ \A j \in 2..k : IsSchemeChar(url[j])
        /\ Len(url) >= k + 3
        /\ url[k + 1] = ":"
        /\ url[k + 2] = "/"
        /\ url[k + 3] = "/"

\* ABSOLUTE_URL_REGEX = /^([a-z][a-z\d+\-.]*:)?\/\//i
isAbsoluteURL(url) ==
    \/ /\ Len(url) >= 2
       /\ url[1] = "/"
       /\ url[2] = "/"
    \/ \E k \in 1..Len(url) :
          /\ url[1] \in Letters
          /\ \A j \in 2..k : IsSchemeChar(url[j])
          /\ Len(url) >= k + 3
          /\ url[k + 1] = ":"
          /\ url[k + 2] = "/"
          /\ url[k + 3] = "/"

RECURSIVE StripTrailingSlashes(_)
\* s.replace(/\/+$/, '')
StripTrailingSlashes(s) ==
    IF Len(s) > 0 /\ s[Len(s)] = "/"
    THEN StripTrailingSlashes(SubSeq(s, 1, Len(s) - 1))
    ELSE s

RECURSIVE StripLeadingSlashes(_)
\* s.replace(/^\/+/, '')
StripLeadingSlashes(s) ==
    IF Len(s) > 0 /\ s[1] = "/"
    THEN StripLeadingSlashes(Tail(s))
    ELSE s

\* Mutant of combineURLs: one trailing slash of the base is removed, as
\* replace(/\/$/, '') does, instead of all of them.
combineURLsStrippingOneSlash(baseURL, relativeURL) ==
    IF relativeURL = << >>
    THEN baseURL
    ELSE (IF Len(baseURL) > 0 /\ baseURL[Len(baseURL)] = "/"
          THEN SubSeq(baseURL, 1, Len(baseURL) - 1) ELSE baseURL)
         \o << "/" >> \o StripLeadingSlashes(relativeURL)

combineURLs(baseURL, relativeURL) ==
    IF relativeURL = << >>
    THEN baseURL
    ELSE StripTrailingSlashes(baseURL) \o << "/" >> \o StripLeadingSlashes(relativeURL)

buildUrl(cfg) ==
    LET url == OrEmpty(cfg.url)
    IN  IF cfg.baseURL.defined /\ cfg.baseURL.chars # << >> /\ ~isAbsoluteURL(url)
        THEN combineURLs(cfg.baseURL.chars, url)
        ELSE url

(***************************************************************************)
(* JavaScript values, as far as the translators look at them.              *)
(***************************************************************************)
JsUndefined == [t |-> "undefined", s |-> << >>, n |-> 0, b |-> FALSE]
JsNull == [t |-> "null", s |-> << >>, n |-> 0, b |-> FALSE]
JsString(chars) == [t |-> "string", s |-> chars, n |-> 0, b |-> FALSE]
JsNumber(k) == [t |-> "number", s |-> << >>, n |-> k, b |-> FALSE]
JsBoolean(v) == [t |-> "boolean", s |-> << >>, n |-> 0, b |-> v]
\* a plain object ({}), whose String() is "[object Object]"
JsObject == [t |-> "object", s |-> << >>, n |-> 0, b |-> FALSE]
\* an object whose conversion to a string throws a TypeError, such as
\* Object.create(null), which has no toString
JsNullProto == [t |-> "nullproto", s |-> << >>, n |-> 0, b |-> FALSE]

IsNullish(v) == v.t \in {"undefined", "null"}

ObjectObjectChars ==
    << "[", "o", "b", "j", "e", "c", "t", " ", "O", "b", "j", "e", "c", "t", "]" >>

\* String(value); meaningful when StringThrows(value) is false
String(v) ==
    CASE v.t = "string" -> v.s
      [] v.t = "number" -> NumberToChars(v.n)
      [] v.t = "boolean" -> IF v.b THEN << "t", "r", "u", "e" >>
                                   ELSE << "f", "a", "l", "s", "e" >>
      [] v.t = "undefined" -> << "u", "n", "d", "e", "f", "i", "n", "e", "d" >>
      [] v.t = "null" -> << "n", "u", "l", "l" >>
      [] OTHER -> ObjectObjectChars

\* String(value) throws "TypeError: Cannot convert object to primitive value"
StringThrows(v) == v.t = "nullproto"

\* Object.fromEntries over a sequence of <<key, value>> pairs of strings:
\* one entry per key, the last pair of a key wins.
fromEntries(pairs) ==
    [k \in {pairs[j][1] : j \in 1..Len(pairs)} |->
        LET last == CHOOSE j \in 1..Len(pairs) :
                        /\ pairs[j][1] = k
                        /\ \A m \in (j + 1)..Len(pairs) : pairs[m][1] # k
        IN  JsString(pairs[last][2])]

RECURSIVE SplitOn(_, _)
\* s.split(sep) for a one-character separator
SplitOn(s, sep) ==
    IF \E k \in 1..Len(s) : s[k] = sep
    THEN LET k == CHOOSE j \in 1..Len(s) : s[j] = sep /\ \A m \in 1..(j - 1) : s[m] # sep
         IN  << SubSeq(s, 1, k - 1) >> \o SplitOn(SubSeq(s, k + 1, Len(s)), sep)
    ELSE << s >>

PlusToSpace(s) == [k \in 1..Len(s) |-> IF s[k] = "+" THEN " " ELSE s[k]]

\* Characters. A printable ASCII character is the string of that character;
\* tab, line feed, form feed and carriage return are "\t", "\n", "\f" and
\* "\r"; every other code point is held by its name, "U+" and at least four
\* hexadecimal digits ("U+0000", "U+00E9", "U+20AC"), the grave accent
\* (code 96) included.
HexSeq == DigitSeq \o << "A", "B", "C", "D", "E", "F" >>
HexBase == 16
IsHexDigit(c) == c \in Range(HexSeq) \cup {"a", "b", "c", "d", "e", "f"}
HexValue(c) ==
    (CHOOSE k \in 1..HexBase :
        SubSeq("0123456789ABCDEF", k, k) = c \/ SubSeq("0123456789abcdef", k, k) = c) - 1

RECURSIVE HexString(_)
HexString(n) ==
    IF n < HexBase THEN HexSeq[n + 1]
    ELSE HexString(n \div HexBase) \o HexSeq[(n % HexBase) + 1]

CharName(n) ==
    "U+" \o (IF n < 16 THEN "000" ELSE IF n < 256 THEN "00" ELSE IF n < 4096 THEN "0" ELSE "")
         \o HexString(n)

\* The printable ASCII characters, code 32 first; the grave accent, the
\* 65th, is held by its name.
AsciiSeq ==
    [k \in 1..95 |->
        IF k = 65 THEN "U+0060"
        ELSE SubSeq(" !\"#$%&'()*+,-./0123456789:;<=>?@ABCDEFGHIJKLMNOPQRSTUVWXYZ[\\]^_ abcdefghijklmnopqrstuvwxyz{|}~",
                    k, k)]
MaxCodePoint == 1114111

\* String.fromCodePoint(n)
CharOfCode(n) ==
    CASE n = 9 -> "\t"
      [] n = 10 -> "\n"
      [] n = 12 -> "\f"
      [] n = 13 -> "\r"
      [] n >= 32 /\ n <= 126 -> AsciiSeq[n - 31]
      [] OTHER -> CharName(n)

RECURSIVE HexNumber(_)
\* The number a string of hexadecimal digits denotes.
HexNumber(digits) ==
    IF Len(digits) = 0 THEN 0
    ELSE HexNumber(SubSeq(digits, 1, Len(digits) - 1)) * HexBase
            + HexValue(SubSeq(digits, Len(digits), Len(digits)))

\* c.codePointAt(0): a character held by itself is one character long, a
\* name is "U+" and the code in hexadecimal.
CodeOfChar(c) ==
    IF Len(c) > 1 THEN HexNumber(SubSeq(c, 3, Len(c)))
    ELSE CASE c = "\t" -> 9
           [] c = "\n" -> 10
           [] c = "\f" -> 12
           [] c = "\r" -> 13
           [] OTHER -> 31 + CHOOSE k \in 1..95 : AsciiSeq[k] = c

\* The case mappings of the Unicode Character Database, which
\* String.prototype.toLowerCase and toUpperCase apply. The repository names
\* no runtime, and the runtime's Unicode version decides the mapping of the
\* code points a later version added or changed: the tables hold version
\* 15.1, and apart from them what versions 16.0 and 17.0 changed. Each table
\* is a string of records, every field of a record six hexadecimal digits;
\* TableRecords gives the records as tuples of `fields` numbers.
TableRecords(table, fields) ==
    [r \in 1..(Len(table) \div (fields * 6)) |->
        [f \in 1..fields |->
            HexNumber(SubSeq(table, ((r - 1) * fields + f - 1) * 6 + 1,
                             ((r - 1) * fields + f) * 6))]]

\* The Unicode versions of the runtimes: 15.1 (Node.js 18.20) and 17.0
\* (Node.js 20.20, 22.22).
UnicodeVersions == {"15.1", "17.0"}

\* The records of a table in a version: those of 15.1, and from 16.0 on the
\* later ones too.
InVersion(version, records, later) == IF version = "17.0" THEN records \o later ELSE records

\* Simple lower-case mappings (UnicodeData.txt, field 13), as runs
\* <<first, last, step, lower case of first>>: the code points first,
\* first + step, ..., last map to targets at the same distance.
LowerCaseRuns ==
    TableRecords(
        "00004100005A0000010000610000C00000D60000010000E00000D80000DE0000010000F800010000012E000002000101"
        \o "00013200013600000200013300013900014700000200013A00014A00017600000200014B0001780001780000010000FF"
        \o "00017900017D00000200017A000181000181000001000253000182000184000002000183000186000186000001000254"
        \o "00018700018700000100018800018900018A00000100025600018B00018B00000100018C00018E00018E0000010001DD"
        \o "00018F00018F00000100025900019000019000000100025B000191000191000001000192000193000193000001000260"
        \o "000194000194000001000263000196000196000001000269000197000197000001000268000198000198000001000199"
        \o "00019C00019C00000100026F00019D00019D00000100027200019F00019F0000010002750001A00001A40000020001A1"
        \o "0001A60001A60000010002800001A70001A70000010001A80001A90001A90000010002830001AC0001AC0000010001AD"
        \o "0001AE0001AE0000010002880001AF0001AF0000010001B00001B10001B200000100028A0001B30001B50000020001B4"
        \o "0001B70001B70000010002920001B80001B80000010001B90001BC0001BC0000010001BD0001C40001C40000010001C6"
        \o "0001C50001C50000010001C60001C70001C70000010001C90001C80001C80000010001C90001CA0001CA0000010001CC"
        \o "0001CB0001DB0000020001CC0001DE0001EE0000020001DF0001F10001F10000010001F30001F20001F40000020001F3"
        \o "0001F60001F60000010001950001F70001F70000010001BF0001F800021E0000020001F900022000022000000100019E"
        \o "00022200023200000200022300023A00023A000001002C6500023B00023B00000100023C00023D00023D00000100019A"
        \o "00023E00023E000001002C66000241000241000001000242000243000243000001000180000244000244000001000289"
        \o "00024500024500000100028C00024600024E000002000247000370000372000002000371000376000376000001000377"
        \o "00037F00037F0000010003F30003860003860000010003AC00038800038A0000010003AD00038C00038C0000010003CC"
        \o "00038E00038F0000010003CD0003910003A10000010003B10003A30003AB0000010003C30003CF0003CF0000010003D7"
        \o "0003D80003EE0000020003D90003F40003F40000010003B80003F70003F70000010003F80003F90003F90000010003F2"
        \o "0003FA0003FA0000010003FB0003FD0003FF00000100037B00040000040F00000100045000041000042F000001000430"
        \o "00046000048000000200046100048A0004BE00000200048B0004C00004C00000010004CF0004C10004CD0000020004C2"
        \o "0004D000052E0000020004D10005310005560000010005610010A00010C5000001002D000010C70010C7000001002D27"
        \o "0010CD0010CD000001002D2D0013A00013EF00000100AB700013F00013F50000010013F8001C90001CBA0000010010D0"
        \o "001CBD001CBF0000010010FD001E00001E94000002001E01001E9E001E9E0000010000DF001EA0001EFE000002001EA1"
        \o "001F08001F0F000001001F00001F18001F1D000001001F10001F28001F2F000001001F20001F38001F3F000001001F30"
        \o "001F48001F4D000001001F40001F59001F5F000002001F51001F68001F6F000001001F60001F88001F8F000001001F80"
        \o "001F98001F9F000001001F90001FA8001FAF000001001FA0001FB8001FB9000001001FB0001FBA001FBB000001001F70"
        \o "001FBC001FBC000001001FB3001FC8001FCB000001001F72001FCC001FCC000001001FC3001FD8001FD9000001001FD0"
        \o "001FDA001FDB000001001F76001FE8001FE9000001001FE0001FEA001FEB000001001F7A001FEC001FEC000001001FE5"
        \o "001FF8001FF9000001001F78001FFA001FFB000001001F7C001FFC001FFC000001001FF30021260021260000010003C9"
        \o "00212A00212A00000100006B00212B00212B0000010000E500213200213200000100214E00216000216F000001002170"
        \o "0021830021830000010021840024B60024CF0000010024D0002C00002C2F000001002C30002C60002C60000001002C61"
        \o "002C62002C6200000100026B002C63002C63000001001D7D002C64002C6400000100027D002C67002C6B000002002C68"
        \o "002C6D002C6D000001000251002C6E002C6E000001000271002C6F002C6F000001000250002C70002C70000001000252"
        \o "002C72002C72000001002C73002C75002C75000001002C76002C7E002C7F00000100023F002C80002CE2000002002C81"
        \o "002CEB002CED000002002CEC002CF2002CF2000001002CF300A64000A66C00000200A64100A68000A69A00000200A681"
        \o "00A72200A72E00000200A72300A73200A76E00000200A73300A77900A77B00000200A77A00A77D00A77D000001001D79"
        \o "00A77E00A78600000200A77F00A78B00A78B00000100A78C00A78D00A78D00000100026500A79000A79200000200A791"
        \o "00A79600A7A800000200A79700A7AA00A7AA00000100026600A7AB00A7AB00000100025C00A7AC00A7AC000001000261"
        \o "00A7AD00A7AD00000100026C00A7AE00A7AE00000100026A00A7B000A7B000000100029E00A7B100A7B1000001000287"
        \o "00A7B200A7B200000100029D00A7B300A7B300000100AB5300A7B400A7C200000200A7B500A7C400A7C400000100A794"
        \o "00A7C500A7C500000100028200A7C600A7C6000001001D8E00A7C700A7C900000200A7C800A7D000A7D000000100A7D1"
        \o "00A7D600A7D800000200A7D700A7F500A7F500000100A7F600FF2100FF3A00000100FF41010400010427000001010428"
        \o "0104B00104D30000010104D801057001059400000201059701057101057A00000101059801057D01058A0000010105A4"
        \o "01058D0105920000010105B40105950105950000010105BC010C80010CB2000001010CC00118A00118BF0000010118C0"
        \o "016E40016E5F000001016E6001E90001E92100000101E922",
        4)

\* The lower-case mappings Unicode 16.0 and 17.0 added (U+1C89, Latin
\* Extended-D, Garay, Beria Erfe).
LaterLowerCaseRuns ==
    TableRecords(
        "001C89001C89000001001C8A00A7CB00A7CB00000100026400A7CC00A7CE00000200A7CD00A7D200A7D400000200A7D3"
        \o "00A7DA00A7DA00000100A7DB00A7DC00A7DC00000100019B010D50010D65000001010D70016EA0016EB8000001016EBB",
        4)

\* Unconditional full lower-case mappings to more than one character
\* (SpecialCasing.txt), as <<code point, first, second, third>> with 0 for
\* an absent third character: U+0130 becomes "i" and U+0307.
LowerSpecials ==
    TableRecords(
        "000130000069000307000000",
        4)

\* Simple upper-case mappings (UnicodeData.txt, field 12), as runs of the
\* same form.
UpperCaseRuns ==
    TableRecords(
        "00006100007A0000010000410000B50000B500000100039C0000E00000F60000010000C00000F80000FE0000010000D8"
        \o "0000FF0000FF00000100017800010100012F000002000100000131000131000001000049000133000137000002000132"
        \o "00013A00014800000200013900014B00017700000200014A00017A00017E00000200017900017F00017F000001000053"
        \o "00018000018000000100024300018300018500000200018200018800018800000100018700018C00018C00000100018B"
        \o "0001920001920000010001910001950001950000010001F600019900019900000100019800019A00019A00000100023D"
        \o "00019E00019E0000010002200001A10001A50000020001A00001A80001A80000010001A70001AD0001AD0000010001AC"
        \o "0001B00001B00000010001AF0001B40001B60000020001B30001B90001B90000010001B80001BD0001BD0000010001BC"
        \o "0001BF0001BF0000010001F70001C50001C50000010001C40001C60001C60000010001C40001C80001C80000010001C7"
        \o "0001C90001C90000010001C70001CB0001CB0000010001CA0001CC0001CC0000010001CA0001CE0001DC0000020001CD"
        \o "0001DD0001DD00000100018E0001DF0001EF0000020001DE0001F20001F20000010001F10001F30001F30000010001F1"
        \o "0001F50001F50000010001F40001F900021F0000020001F800022300023300000200022200023C00023C00000100023B"
        \o "00023F000240000001002C7E00024200024200000100024100024700024F000002000246000250000250000001002C6F"
        \o "000251000251000001002C6D000252000252000001002C70000253000253000001000181000254000254000001000186"
        \o "00025600025700000100018900025900025900000100018F00025B00025B00000100019000025C00025C00000100A7AB"
        \o "00026000026000000100019300026100026100000100A7AC00026300026300000100019400026500026500000100A78D"
        \o "00026600026600000100A7AA00026800026800000100019700026900026900000100019600026A00026A00000100A7AE"
        \o "00026B00026B000001002C6200026C00026C00000100A7AD00026F00026F00000100019C000271000271000001002C6E"
        \o "00027200027200000100019D00027500027500000100019F00027D00027D000001002C640002800002800000010001A6"
        \o "00028200028200000100A7C50002830002830000010001A900028700028700000100A7B10002880002880000010001AE"
        \o "00028900028900000100024400028A00028B0000010001B100028C00028C0000010002450002920002920000010001B7"
        \o "00029D00029D00000100A7B200029E00029E00000100A7B0000345000345000001000399000371000373000002000370"
        \o "00037700037700000100037600037B00037D0000010003FD0003AC0003AC0000010003860003AD0003AF000001000388"
        \o "0003B10003C10000010003910003C20003C20000010003A30003C30003CB0000010003A30003CC0003CC00000100038C"
        \o "0003CD0003CE00000100038E0003D00003D00000010003920003D10003D10000010003980003D50003D50000010003A6"
        \o "0003D60003D60000010003A00003D70003D70000010003CF0003D90003EF0000020003D80003F00003F000000100039A"
        \o "0003F10003F10000010003A10003F20003F20000010003F90003F30003F300000100037F0003F50003F5000001000395"
        \o "0003F80003F80000010003F70003FB0003FB0000010003FA00043000044F00000100041000045000045F000001000400"
        \o "00046100048100000200046000048B0004BF00000200048A0004C20004CE0000020004C10004CF0004CF0000010004C0"
        \o "0004D100052F0000020004D00005610005860000010005310010D00010FA000001001C900010FD0010FF000001001CBD"
        \o "0013F80013FD0000010013F0001C80001C80000001000412001C81001C81000001000414001C82001C8200000100041E"
        \o "001C83001C84000001000421001C85001C85000001000422001C86001C8600000100042A001C87001C87000001000462"
        \o "001C88001C8800000100A64A001D79001D7900000100A77D001D7D001D7D000001002C63001D8E001D8E00000100A7C6"
        \o "001E01001E95000002001E00001E9B001E9B000001001E60001EA1001EFF000002001EA0001F00001F07000001001F08"
        \o "001F10001F15000001001F18001F20001F27000001001F28001F30001F37000001001F38001F40001F45000001001F48"
        \o "001F51001F57000002001F59001F60001F67000001001F68001F70001F71000001001FBA001F72001F75000001001FC8"
        \o "001F76001F77000001001FDA001F78001F79000001001FF8001F7A001F7B000001001FEA001F7C001F7D000001001FFA"
        \o "001FB0001FB1000001001FB8001FBE001FBE000001000399001FD0001FD1000001001FD8001FE0001FE1000001001FE8"
        \o "001FE5001FE5000001001FEC00214E00214E00000100213200217000217F000001002160002184002184000001002183"
        \o "0024D00024E90000010024B6002C30002C5F000001002C00002C61002C61000001002C60002C65002C6500000100023A"
        \o "002C66002C6600000100023E002C68002C6C000002002C67002C73002C73000001002C72002C76002C76000001002C75"
        \o "002C81002CE3000002002C80002CEC002CEE000002002CEB002CF3002CF3000001002CF2002D00002D250000010010A0"
        \o "002D27002D270000010010C7002D2D002D2D0000010010CD00A64100A66D00000200A64000A68100A69B00000200A680"
        \o "00A72300A72F00000200A72200A73300A76F00000200A73200A77A00A77C00000200A77900A77F00A78700000200A77E"
        \o "00A78C00A78C00000100A78B00A79100A79300000200A79000A79400A79400000100A7C400A79700A7A900000200A796"
        \o "00A7B500A7C300000200A7B400A7C800A7CA00000200A7C700A7D100A7D100000100A7D000A7D700A7D900000200A7D6"
        \o "00A7F600A7F600000100A7F500AB5300AB5300000100A7B300AB7000ABBF0000010013A000FF4100FF5A00000100FF21"
        \o "01042801044F0000010104000104D80104FB0000010104B00105970105BB0000020105700105980105A1000001010571"
        \o "0105A40105B100000101057D0105B40105B900000101058D0105BC0105BC000001010595010CC0010CF2000001010C80"
        \o "0118C00118DF0000010118A0016E60016E7F000001016E4001E92201E94300000101E900",
        4)

\* The upper-case mappings Unicode 16.0 and 17.0 added, U+019B and U+0264
\* among them.
LaterUpperCaseRuns ==
    TableRecords(
        "00019B00019B00000100A7DC00026400026400000100A7CB001C8A001C8A000001001C8900A7CD00A7CF00000200A7CC"
        \o "00A7D300A7D500000200A7D200A7DB00A7DB00000100A7DA010D70010D85000001010D50016EBB016ED3000001016EA0",
        4)

\* Unconditional full upper-case mappings to more than one character
\* (SpecialCasing.txt), in the form of LowerSpecials.
UpperSpecials ==
    TableRecords(
        "0000DF0000530000530000000001490002BC00004E0000000001F000004A00030C000000000390000399000308000301"
        \o "0003B00003A5000308000301000587000535000552000000001E96000048000331000000001E97000054000308000000"
        \o "001E9800005700030A000000001E9900005900030A000000001E9A0000410002BE000000001F500003A5000313000000"
        \o "001F520003A5000313000300001F540003A5000313000301001F560003A5000313000342001F80001F08000399000000"
        \o "001F81001F09000399000000001F82001F0A000399000000001F83001F0B000399000000001F84001F0C000399000000"
        \o "001F85001F0D000399000000001F86001F0E000399000000001F87001F0F000399000000001F88001F08000399000000"
        \o "001F89001F09000399000000001F8A001F0A000399000000001F8B001F0B000399000000001F8C001F0C000399000000"
        \o "001F8D001F0D000399000000001F8E001F0E000399000000001F8F001F0F000399000000001F90001F28000399000000"
        \o "001F91001F29000399000000001F92001F2A000399000000001F93001F2B000399000000001F94001F2C000399000000"
        \o "001F95001F2D000399000000001F96001F2E000399000000001F97001F2F000399000000001F98001F28000399000000"
        \o "001F99001F29000399000000001F9A001F2A000399000000001F9B001F2B000399000000001F9C001F2C000399000000"
        \o "001F9D001F2D000399000000001F9E001F2E000399000000001F9F001F2F000399000000001FA0001F68000399000000"
        \o "001FA1001F69000399000000001FA2001F6A000399000000001FA3001F6B000399000000001FA4001F6C000399000000"
        \o "001FA5001F6D000399000000001FA6001F6E000399000000001FA7001F6F000399000000001FA8001F68000399000000"
        \o "001FA9001F69000399000000001FAA001F6A000399000000001FAB001F6B000399000000001FAC001F6C000399000000"
        \o "001FAD001F6D000399000000001FAE001F6E000399000000001FAF001F6F000399000000001FB2001FBA000399000000"
        \o "001FB3000391000399000000001FB4000386000399000000001FB6000391000342000000001FB7000391000342000399"
        \o "001FBC000391000399000000001FC2001FCA000399000000001FC3000397000399000000001FC4000389000399000000"
        \o "001FC6000397000342000000001FC7000397000342000399001FCC000397000399000000001FD2000399000308000300"
        \o "001FD3000399000308000301001FD6000399000342000000001FD7000399000308000342001FE20003A5000308000300"
        \o "001FE30003A5000308000301001FE40003A1000313000000001FE60003A5000342000000001FE70003A5000308000342"
        \o "001FF2001FFA000399000000001FF30003A9000399000000001FF400038F000399000000001FF60003A9000342000000"
        \o "001FF70003A9000342000399001FFC0003A900039900000000FB0000004600004600000000FB01000046000049000000"
        \o "00FB0200004600004C00000000FB0300004600004600004900FB0400004600004600004C00FB05000053000054000000"
        \o "00FB0600005300005400000000FB1300054400054600000000FB1400054400053500000000FB1500054400053B000000"
        \o "00FB1600054E00054600000000FB1700054400053D000000",
        4)

\* The code points that are Cased and not Case_Ignorable, and those that are
\* Case_Ignorable (DerivedCoreProperties.txt), as ranges <<first, last>>.
CasedRanges ==
    TableRecords(
        "00004100005A00006100007A0000AA0000AA0000B50000B50000BA0000BA0000C00000D60000D80000F60000F80001BA"
        \o "0001BC0001BF0001C40002930002950002AF00037000037300037600037700037B00037D00037F00037F000386000386"
        \o "00038800038A00038C00038C00038E0003A10003A30003F50003F700048100048A00052F000531000556000560000588"
        \o "0010A00010C50010C70010C70010CD0010CD0010D00010FA0010FD0010FF0013A00013F50013F80013FD001C80001C88"
        \o "001C90001CBA001CBD001CBF001D00001D2B001D6B001D77001D79001D9A001E00001F15001F18001F1D001F20001F45"
        \o "001F48001F4D001F50001F57001F59001F59001F5B001F5B001F5D001F5D001F5F001F7D001F80001FB4001FB6001FBC"
        \o "001FBE001FBE001FC2001FC4001FC6001FCC001FD0001FD3001FD6001FDB001FE0001FEC001FF2001FF4001FF6001FFC"
        \o "00210200210200210700210700210A00211300211500211500211900211D002124002124002126002126002128002128"
        \o "00212A00212D00212F00213400213900213900213C00213F00214500214900214E00214E00216000217F002183002184"
        \o "0024B60024E9002C00002C7B002C7E002CE4002CEB002CEE002CF2002CF3002D00002D25002D27002D27002D2D002D2D"
        \o "00A64000A66D00A68000A69B00A72200A76F00A77100A78700A78B00A78E00A79000A7CA00A7D000A7D100A7D300A7D3"
        \o "00A7D500A7D900A7F500A7F600A7FA00A7FA00AB3000AB5A00AB6000AB6800AB7000ABBF00FB0000FB0600FB1300FB17"
        \o "00FF2100FF3A00FF4100FF5A01040001044F0104B00104D30104D80104FB01057001057A01057C01058A01058C010592"
        \o "0105940105950105970105A10105A30105B10105B30105B90105BB0105BC010C80010CB2010CC0010CF20118A00118DF"
        \o "016E40016E7F01D40001D45401D45601D49C01D49E01D49F01D4A201D4A201D4A501D4A601D4A901D4AC01D4AE01D4B9"
        \o "01D4BB01D4BB01D4BD01D4C301D4C501D50501D50701D50A01D50D01D51401D51601D51C01D51E01D53901D53B01D53E"
        \o "01D54001D54401D54601D54601D54A01D55001D55201D6A501D6A801D6C001D6C201D6DA01D6DC01D6FA01D6FC01D714"
        \o "01D71601D73401D73601D74E01D75001D76E01D77001D78801D78A01D7A801D7AA01D7C201D7C401D7CB01DF0001DF09"
        \o "01DF0B01DF1E01DF2501DF2A01E90001E94301F13001F14901F15001F16901F17001F189",
        2)

CaseIgnorableRanges ==
    TableRecords(
        "00002700002700002E00002E00003A00003A00005E00005E0000600000600000A80000A80000AD0000AD0000AF0000AF"
        \o "0000B40000B40000B70000B80002B000036F00037400037500037A00037A000384000385000387000387000483000489"
        \o "00055900055900055F00055F0005910005BD0005BF0005BF0005C10005C20005C40005C50005C70005C70005F40005F4"
        \o "00060000060500061000061A00061C00061C00064000064000064B00065F0006700006700006D60006DD0006DF0006E8"
        \o "0006EA0006ED00070F00070F00071100071100073000074A0007A60007B00007EB0007F50007FA0007FA0007FD0007FD"
        \o "00081600082D00085900085B00088800088800089000089100089800089F0008C900090200093A00093A00093C00093C"
        \o "00094100094800094D00094D0009510009570009620009630009710009710009810009810009BC0009BC0009C10009C4"
        \o "0009CD0009CD0009E20009E30009FE0009FE000A01000A02000A3C000A3C000A41000A42000A47000A48000A4B000A4D"
        \o "000A51000A51000A70000A71000A75000A75000A81000A82000ABC000ABC000AC1000AC5000AC7000AC8000ACD000ACD"
        \o "000AE2000AE3000AFA000AFF000B01000B01000B3C000B3C000B3F000B3F000B41000B44000B4D000B4D000B55000B56"
        \o "000B62000B63000B82000B82000BC0000BC0000BCD000BCD000C00000C00000C04000C04000C3C000C3C000C3E000C40"
        \o "000C46000C48000C4A000C4D000C55000C56000C62000C63000C81000C81000CBC000CBC000CBF000CBF000CC6000CC6"
        \o "000CCC000CCD000CE2000CE3000D00000D01000D3B000D3C000D41000D44000D4D000D4D000D62000D63000D81000D81"
        \o "000DCA000DCA000DD2000DD4000DD6000DD6000E31000E31000E34000E3A000E46000E4E000EB1000EB1000EB4000EBC"
        \o "000EC6000EC6000EC8000ECE000F18000F19000F35000F35000F37000F37000F39000F39000F71000F7E000F80000F84"
        \o "000F86000F87000F8D000F97000F99000FBC000FC6000FC600102D00103000103200103700103900103A00103D00103E"
        \o "00105800105900105E00106000107100107400108200108200108500108600108D00108D00109D00109D0010FC0010FC"
        \o "00135D00135F0017120017140017320017330017520017530017720017730017B40017B50017B70017BD0017C60017C6"
        \o "0017C90017D30017D70017D70017DD0017DD00180B00180F0018430018430018850018860018A90018A9001920001922"
        \o "00192700192800193200193200193900193B001A17001A18001A1B001A1B001A56001A56001A58001A5E001A60001A60"
        \o "001A62001A62001A65001A6C001A73001A7C001A7F001A7F001AA7001AA7001AB0001ACE001B00001B03001B34001B34"
        \o "001B36001B3A001B3C001B3C001B42001B42001B6B001B73001B80001B81001BA2001BA5001BA8001BA9001BAB001BAD"
        \o "001BE6001BE6001BE8001BE9001BED001BED001BEF001BF1001C2C001C33001C36001C37001C78001C7D001CD0001CD2"
        \o "001CD4001CE0001CE2001CE8001CED001CED001CF4001CF4001CF8001CF9001D2C001D6A001D78001D78001D9B001DFF"
        \o "001FBD001FBD001FBF001FC1001FCD001FCF001FDD001FDF001FED001FEF001FFD001FFE00200B00200F002018002019"
        \o "00202400202400202700202700202A00202E00206000206400206600206F00207100207100207F00207F00209000209C"
        \o "0020D00020F0002C7C002C7D002CEF002CF1002D6F002D6F002D7F002D7F002DE0002DFF002E2F002E2F003005003005"
        \o "00302A00302D00303100303500303B00303B00309900309E0030FC0030FE00A01500A01500A4F800A4FD00A60C00A60C"
        \o "00A66F00A67200A67400A67D00A67F00A67F00A69C00A69F00A6F000A6F100A70000A72100A77000A77000A78800A78A"
        \o "00A7F200A7F400A7F800A7F900A80200A80200A80600A80600A80B00A80B00A82500A82600A82C00A82C00A8C400A8C5"
        \o "00A8E000A8F100A8FF00A8FF00A92600A92D00A94700A95100A98000A98200A9B300A9B300A9B600A9B900A9BC00A9BD"
        \o "00A9CF00A9CF00A9E500A9E600AA2900AA2E00AA3100AA3200AA3500AA3600AA4300AA4300AA4C00AA4C00AA7000AA70"
        \o "00AA7C00AA7C00AAB000AAB000AAB200AAB400AAB700AAB800AABE00AABF00AAC100AAC100AADD00AADD00AAEC00AAED"
        \o "00AAF300AAF400AAF600AAF600AB5B00AB5F00AB6900AB6B00ABE500ABE500ABE800ABE800ABED00ABED00FB1E00FB1E"
        \o "00FBB200FBC200FE0000FE0F00FE1300FE1300FE2000FE2F00FE5200FE5200FE5500FE5500FEFF00FEFF00FF0700FF07"
        \o "00FF0E00FF0E00FF1A00FF1A00FF3E00FF3E00FF4000FF4000FF7000FF7000FF9E00FF9F00FFE300FFE300FFF900FFFB"
        \o "0101FD0101FD0102E00102E001037601037A0107800107850107870107B00107B20107BA010A01010A03010A05010A06"
        \o "010A0C010A0F010A38010A3A010A3F010A3F010AE5010AE6010D24010D27010EAB010EAC010EFD010EFF010F46010F50"
        \o "010F82010F8501100101100101103801104601107001107001107301107401107F0110810110B30110B60110B90110BA"
        \o "0110BD0110BD0110C20110C20110CD0110CD01110001110201112701112B01112D011134011173011173011180011181"
        \o "0111B60111BE0111C90111CC0111CF0111CF01122F01123101123401123401123601123701123E01123E011241011241"
        \o "0112DF0112DF0112E30112EA01130001130101133B01133C01134001134001136601136C01137001137401143801143F"
        \o "01144201144401144601144601145E01145E0114B30114B80114BA0114BA0114BF0114C00114C20114C30115B20115B5"
        \o "0115BC0115BD0115BF0115C00115DC0115DD01163301163A01163D01163D01163F0116400116AB0116AB0116AD0116AD"
        \o "0116B00116B50116B70116B701171D01171F01172201172501172701172B01182F01183701183901183A01193B01193C"
        \o "01193E01193E0119430119430119D40119D70119DA0119DB0119E00119E0011A01011A0A011A33011A38011A3B011A3E"
        \o "011A47011A47011A51011A56011A59011A5B011A8A011A96011A98011A99011C30011C36011C38011C3D011C3F011C3F"
        \o "011C92011CA7011CAA011CB0011CB2011CB3011CB5011CB6011D31011D36011D3A011D3A011D3C011D3D011D3F011D45"
        \o "011D47011D47011D90011D91011D95011D95011D97011D97011EF3011EF4011F00011F01011F36011F3A011F40011F40"
        \o "011F42011F42013430013440013447013455016AF0016AF4016B30016B36016B40016B43016F4F016F4F016F8F016F9F"
        \o "016FE0016FE1016FE3016FE401AFF001AFF301AFF501AFFB01AFFD01AFFE01BC9D01BC9E01BCA001BCA301CF0001CF2D"
        \o "01CF3001CF4601D16701D16901D17301D18201D18501D18B01D1AA01D1AD01D24201D24401DA0001DA3601DA3B01DA6C"
        \o "01DA7501DA7501DA8401DA8401DA9B01DA9F01DAA101DAAF01E00001E00601E00801E01801E01B01E02101E02301E024"
        \o "01E02601E02A01E03001E06D01E08F01E08F01E13001E13D01E2AE01E2AE01E2EC01E2EF01E4EB01E4EF01E8D001E8D6"
        \o "01E94401E94B01F3FB01F3FF0E00010E00010E00200E007F0E01000E01EF",
        2)

\* What Unicode 16.0 and 17.0 changed in these properties: the code points
\* that became Cased (the new letters with a case mapping), U+0295 that is
\* Cased no more, the new Case_Ignorable code points and U+1171E that is
\* Case_Ignorable no more.
LaterCasedRanges ==
    TableRecords(
        "001C89001C8A00A7CB00A7CF00A7D200A7D200A7D400A7D400A7DA00A7DC010D50010D65010D70010D85016EA0016EB8"
        \o "016EBB016ED3",
        2)

LaterUncasedRanges ==
    TableRecords(
        "000295000295",
        2)

LaterCaseIgnorableRanges ==
    TableRecords(
        "000897000897001ACF001ADD001AE0001AEB00A7F100A7F1010D4E010D4E010D69010D6D010D6F010D6F010EC5010EC5"
        \o "010EFA010EFC0113BB0113C00113CE0113CE0113D00113D00113D20113D20113E10113E2011B60011B60011B62011B64"
        \o "011B66011B66011DD9011DD9011F5A011F5A01611E01612901612D01612F016D40016D42016D6B016D6C016FF2016FF3"
        \o "01E5EE01E5EF01E6E301E6E301E6E601E6E601E6EE01E6EF01E6F501E6F501E6FF01E6FF",
        2)

LaterNotIgnorableRanges ==
    TableRecords(
        "01171E01171E",
        2)

\* The distance from a code point of the run to its target.
SimpleCaseDistance(run) == run[4] - run[1]

\* The targets of a special casing.
SpecialCasing(to) == IF to[4] = 0 THEN << to[2], to[3] >> ELSE << to[2], to[3], to[4] >>

\* Code point n is one of first, first + step, ..., last of the run.
InRun(run, n) == run[1] <= n /\ n <= run[2] /\ (n - run[1]) % run[3] = 0

\* The target of code point n under the runs of a simple case mapping; n
\* itself when no run holds it.
SimpleCaseMapping(runs, n) ==
    IF \E r \in DOMAIN runs : InRun(runs[r], n)
    THEN n + SimpleCaseDistance(runs[CHOOSE r \in DOMAIN runs : InRun(runs[r], n)])
    ELSE n

\* The code points n becomes under a full case mapping: the two or three of
\* its special casing, the one of the simple mapping otherwise.
FullCaseMapping(specials, runs, n) ==
    IF \E r \in DOMAIN specials : specials[r][1] = n
    THEN SpecialCasing(specials[CHOOSE r \in DOMAIN specials : specials[r][1] = n])
    ELSE << SimpleCaseMapping(runs, n) >>

\* String.fromCodePoint(n).toLowerCase(), as code points, in a runtime of
\* the Unicode version.
LowerOfCode(version, n) ==
    FullCaseMapping(LowerSpecials, InVersion(version, LowerCaseRuns, LaterLowerCaseRuns), n)

\* String.fromCodePoint(n).toUpperCase(), as code points (U+00DF becomes
\* "SS", U+FB03 "FFI").
UpperOfCode(version, n) ==
    FullCaseMapping(UpperSpecials, InVersion(version, UpperCaseRuns, LaterUpperCaseRuns), n)

fromCodePoints(codes) == [k \in 1..Len(codes) |-> CharOfCode(codes[k])]

\* String.prototype.toUpperCase on one character, as the characters it
\* becomes.
UpperOf(version, c) ==
    IF Len(c) > 1 THEN fromCodePoints(UpperOfCode(version, CodeOfChar(c)))
    ELSE IF c \in LowerLetters
    THEN << UpperSeq[CHOOSE k \in 1..Len(LowerSeq) : LowerSeq[k] = c] >>
    ELSE << c >>

InRanges(ranges, n) == \E r \in DOMAIN ranges : ranges[r][1] <= n /\ n <= ranges[r][2]

\* Code point n has the property of the ranges in the version: it is in the
\* ranges of 15.1 or, from 16.0 on, in the added ones, and not in the
\* removed ones.
HasProperty(version, ranges, added, removed, n) ==
    /\ InRanges(InVersion(version, ranges, added), n)
    /\ ~InRanges(InVersion(version, << >>, removed), n)

\* "ignorable", "cased" or "other" for a code point, as the Final_Sigma
\* condition reads the properties: Case_Ignorable first.
CaseClass(version, n) ==
    IF HasProperty(version, CaseIgnorableRanges, LaterCaseIgnorableRanges,
                   LaterNotIgnorableRanges, n)
    THEN "ignorable"
    ELSE IF HasProperty(version, CasedRanges, LaterCasedRanges, LaterUncasedRanges, n)
    THEN "cased"
    ELSE "other"

\* The Final_Sigma condition of SpecialCasing.txt for position k of a string
\* whose characters have the classes `class`: a cased letter precedes the
\* position and none follows it, case-ignorable characters in between not
\* counted.
FinalSigma(class, k) ==
    /\ \E j \in 1..(k - 1) :
          /\ class[j] = "cased"
          /\ \A m \in (j + 1)..(k - 1) : class[m] = "ignorable"
    /\ ~\E j \in (k + 1)..Len(class) :
          /\ class[j] = "cased"
          /\ \A m \in (k + 1)..(j - 1) : class[m] = "ignorable"

\* String.prototype.toLowerCase on the character at position k of s, as the
\* characters it becomes: U+03A3 (capital sigma) becomes the final sigma
\* U+03C2 where Final_Sigma holds.
LowerOf(version, s, k) ==
    IF Len(s[k]) = 1
    THEN (IF s[k] \in UpperLetters
          THEN << LowerSeq[CHOOSE j \in 1..Len(UpperSeq) : UpperSeq[j] = s[k]] >>
          ELSE << s[k] >>)
    ELSE IF s[k] = "U+03A3"
            /\ FinalSigma([j \in 1..Len(s) |-> CaseClass(version, CodeOfChar(s[j]))], k)
    THEN << "U+03C2" >>
    ELSE fromCodePoints(LowerOfCode(version, CodeOfChar(s[k])))

RECURSIVE Flattened(_)
\* The characters of the sequences m[1], m[2], ... one after the other.
Flattened(m) == IF m = << >> THEN << >> ELSE m[1] \o Flattened(Tail(m))

UpperCased(version, s) == Flattened([k \in 1..Len(s) |-> UpperOf(version, s[k])])
toUpperCase(s) == UpperCased(unicodeVersion, s)

LowerCased(version, s) == Flattened([k \in 1..Len(s) |-> LowerOf(version, s, k)])
toLowerCase(s) == LowerCased(unicodeVersion, s)

\* The UTF-8 bytes of one code point; a surrogate is encoded as U+FFFD.
Utf8Bytes(cp) ==
    IF cp >= 55296 /\ cp <= 57343 THEN << 239, 191, 189 >>
    ELSE IF cp < 128 THEN << cp >>
    ELSE IF cp < 2048 THEN << 192 + (cp \div 64), 128 + (cp % 64) >>
    ELSE IF cp < 65536
    THEN << 224 + (cp \div 4096), 128 + ((cp \div 64) % 64), 128 + (cp % 64) >>
    ELSE << 240 + (cp \div 262144), 128 + ((cp \div 4096) % 64),
            128 + ((cp \div 64) % 64), 128 + (cp % 64) >>

RECURSIVE Utf8Length(_)
\* Buffer.byteLength(s): the number of bytes of the UTF-8 encoding of s.
Utf8Length(s) ==
    IF s = << >> THEN 0 ELSE Len(Utf8Bytes(CodeOfChar(s[1]))) + Utf8Length(Tail(s))

RECURSIVE Utf8DecodeFrom(_, _, _, _, _, _)
\* The UTF-8 decoder (Encoding standard) on bytes from position pos: cp is
\* the code point under construction, needed the continuation bytes still
\* expected, lower..upper the range the next one must be in. A byte that
\* cannot continue or start a sequence gives U+FFFD (65533).
Utf8DecodeFrom(bytes, pos, cp, needed, lower, upper) ==
    IF pos > Len(bytes) THEN (IF needed # 0 THEN << 65533 >> ELSE << >>)
    ELSE LET b == bytes[pos]
         IN  IF needed = 0
             THEN CASE b <= 127 ->
                         << b >> \o Utf8DecodeFrom(bytes, pos + 1, 0, 0, 128, 191)
                    [] b >= 194 /\ b <= 223 ->
                         Utf8DecodeFrom(bytes, pos + 1, b - 192, 1, 128, 191)
                    [] b >= 224 /\ b <= 239 ->
                         Utf8DecodeFrom(bytes, pos + 1, b - 224, 2,
                                        IF b = 224 THEN 160 ELSE 128,
                                        IF b = 237 THEN 159 ELSE 191)
                    [] b >= 240 /\ b <= 244 ->
                         Utf8DecodeFrom(bytes, pos + 1, b - 240, 3,
                                        IF b = 240 THEN 144 ELSE 128,
                                        IF b = 244 THEN 143 ELSE 191)
                    [] OTHER ->
                         << 65533 >> \o Utf8DecodeFrom(bytes, pos + 1, 0, 0, 128, 191)
             ELSE IF b < lower \/ b > upper
             THEN << 65533 >> \o Utf8DecodeFrom(bytes, pos, 0, 0, 128, 191)
             ELSE IF needed = 1
             THEN << cp * 64 + (b - 128) >>
                      \o Utf8DecodeFrom(bytes, pos + 1, 0, 0, 128, 191)
             ELSE Utf8DecodeFrom(bytes, pos + 1, cp * 64 + (b - 128), needed - 1, 128, 191)

\* UTF-8 decode without BOM: the characters of a byte sequence.
Utf8Decode(bytes) ==
    LET cps == Utf8DecodeFrom(bytes, 1, 0, 0, 128, 191)
    IN  [k \in 1..Len(cps) |-> CharOfCode(cps[k])]

\* The byte of the escape "%HH" at the head of s; -1 when s does not start
\* with "%" and two hexadecimal digits.
EscapedByte(s) ==
    IF Len(s) >= 3 /\ s[1] = "%" /\ IsHexDigit(s[2]) /\ IsHexDigit(s[3])
    THEN HexValue(s[2]) * HexBase + HexValue(s[3])
    ELSE 0 - 1

\* The number of bytes of the UTF-8 sequence a first byte announces; 0 for a
\* byte that starts none.
SequenceLength(b) ==
    IF b < 0 THEN 0
    ELSE IF b < 128 THEN 1
    ELSE IF b >= 192 /\ b <= 223 THEN 2
    ELSE IF b >= 224 /\ b <= 239 THEN 3
    ELSE IF b >= 240 /\ b <= 247 THEN 4
    ELSE 0

\* The bytes of the escapes at the head of s that make the sequence of its
\* first escape.
EscapedSequence(s) ==
    [j \in 1..SequenceLength(EscapedByte(s)) |->
        EscapedByte(SubSeq(s, 3 * (j - 1) + 1, Len(s)))]

\* The bytes are the UTF-8 encoding of one code point.
EncodesCodePoint(bytes, cps) ==
    /\ bytes # << >>
    /\ \A j \in 1..Len(bytes) : bytes[j] >= 0
    /\ Len(cps) = 1
    /\ Utf8Bytes(cps[1]) = bytes

RECURSIVE decodeURIComponentThrows(_)
\* decodeURIComponent(s) throws a URIError: a "%" that does not start the
\* escapes of the UTF-8 encoding of one code point.
decodeURIComponentThrows(s) ==
    IF s = << >> THEN FALSE
    ELSE IF s[1] # "%" THEN decodeURIComponentThrows(Tail(s))
    ELSE With(EscapedSequence(s), LAMBDA bytes :
            \/ ~EncodesCodePoint(bytes, Utf8DecodeFrom(bytes, 1, 0, 0, 128, 191))
            \/ decodeURIComponentThrows(SubSeq(s, 3 * Len(bytes) + 1, Len(s))))

RECURSIVE decodeURIComponent(_)
\* decodeURIComponent(s) when it does not throw: every sequence of escapes
\* is the character it encodes, every other character stays.
decodeURIComponent(s) ==
    IF s = << >> THEN << >>
    ELSE IF s[1] # "%" THEN << s[1] >> \o decodeURIComponent(Tail(s))
    ELSE With(EscapedSequence(s), LAMBDA bytes :
            Utf8Decode(bytes) \o decodeURIComponent(SubSeq(s, 3 * Len(bytes) + 1, Len(s))))

\* The bytes Buffer holds for the UTF-16 code units of one code point: the
\* low byte of each unit.
CodeUnitBytes(cp) ==
    IF cp < 65536 THEN << cp % 256 >>
    ELSE << (55296 + ((cp - 65536) \div 1024)) % 256, (56320 + ((cp - 65536) % 1024)) % 256 >>

RECURSIVE PercentDecodeBytes(_)
\* querystring.unescapeBuffer (Node.js): "%" followed by two hexadecimal
\* digits is the byte of that value, any other character the low bytes of
\* its code units.
PercentDecodeBytes(s) ==
    IF s = << >> THEN << >>
    ELSE IF EscapedByte(s) >= 0
    THEN << EscapedByte(s) >> \o PercentDecodeBytes(SubSeq(s, 4, Len(s)))
    ELSE CodeUnitBytes(CodeOfChar(s[1])) \o PercentDecodeBytes(Tail(s))

\* querystring.unescape (Node.js): decodeURIComponent, and when that throws
\* the bytes of unescapeBuffer decoded as UTF-8.
PercentDecode(s) ==
    IF decodeURIComponentThrows(s)
    THEN Utf8Decode(PercentDecodeBytes(s))
    ELSE decodeURIComponent(s)

RECURSIVE Encoded(_, _)
\* The flag `encoded` of the URLSearchParams parser of Node.js once it has
\* read s: set by a "%" with two hexadecimal digits after it, "+" signs
\* between them not counted. encodeCheck is 1 after a "%" and 2 after its
\* first digit.
Encoded(s, encodeCheck) ==
    IF s = << >> THEN FALSE
    ELSE IF s[1] = "+" THEN Encoded(Tail(s), encodeCheck)
    ELSE IF s[1] = "%" THEN Encoded(Tail(s), 1)
    ELSE IF encodeCheck > 0 /\ IsHexDigit(s[1])
    THEN encodeCheck = 2 \/ Encoded(Tail(s), encodeCheck + 1)
    ELSE Encoded(Tail(s), 0)

\* The decoding of one name or value: "+" to space, then querystring.unescape
\* when the parser set `encoded`.
DecodeComponent(s) ==
    IF Encoded(s, 0) THEN PercentDecode(PlusToSpace(s)) ELSE PlusToSpace(s)

RECURSIVE PercentEncodeBytes(_)
\* "%XX" for every byte.
PercentEncodeBytes(bytes) ==
    IF bytes = << >> THEN << >>
    ELSE << "%", HexSeq[(bytes[1] \div HexBase) + 1], HexSeq[(bytes[1] % HexBase) + 1] >>
            \o PercentEncodeBytes(Tail(bytes))

\* The URLSearchParams serializer on one character: a space is "+",
\* letters, digits and "*", "-", ".", "_" stay, anything else is
\* percent-encoded, byte by byte of its UTF-8 encoding.
EncodeChar(c) ==
    IF c = " " THEN << "+" >>
    ELSE IF c \in Letters \cup Digits \cup {"*", "-", ".", "_"} THEN << c >>
    ELSE PercentEncodeBytes(Utf8Bytes(CodeOfChar(c)))

RECURSIVE EncodeComponent(_)
EncodeComponent(s) ==
    IF s = << >> THEN << >> ELSE EncodeChar(s[1]) \o EncodeComponent(Tail(s))

RECURSIVE EncodeForm(_)
\* new URLSearchParams(pairs).toString(): "name=value" joined by "&".
EncodeForm(pairs) ==
    IF pairs = << >> THEN << >>
    ELSE EncodeComponent(pairs[1][1]) \o << "=" >> \o EncodeComponent(pairs[1][2])
            \o (IF Len(pairs) > 1 THEN << "&" >> \o EncodeForm(Tail(pairs)) ELSE << >>)

\* One "name=value" segment of a query string: split at the first "=".
ParsePair(seg) ==
    IF \E k \in 1..Len(seg) : seg[k] = "="
    THEN LET k == CHOOSE j \in 1..Len(seg) : seg[j] = "=" /\ \A m \in 1..(j - 1) : seg[m] # "="
         IN  << DecodeComponent(SubSeq(seg, 1, k - 1)),
                DecodeComponent(SubSeq(seg, k + 1, Len(seg))) >>
    ELSE << DecodeComponent(seg), << >> >>

\* toUSVString: a lone surrogate becomes U+FFFD.
toUSVString(s) ==
    [k \in 1..Len(s) |->
        IF CodeOfChar(s[k]) >= 55296 /\ CodeOfChar(s[k]) <= 57343 THEN "U+FFFD" ELSE s[k]]

\* new URLSearchParams(string) (Node.js): lone surrogates are replaced, a
\* leading "?" is dropped, empty segments are skipped and every name and
\* value is decoded.
URLSearchParamsOf(chars) ==
    With(SelectSeq(SplitOn(IF Len(chars) > 0 /\ chars[1] = "?"
                           THEN Tail(toUSVString(chars)) ELSE toUSVString(chars), "&"),
                   LAMBDA seg : seg # << >>),
         LAMBDA segs : [j \in 1..Len(segs) |-> ParsePair(segs[j])])

(***************************************************************************)
(* Optional scalars of a config or an options bag.                         *)
(***************************************************************************)
NoNum == [defined |-> FALSE, n |-> 0]
Num(k) == [defined |-> TRUE, n |-> k]
NoBool == [defined |-> FALSE, b |-> FALSE]
Bool(v) == [defined |-> TRUE, b |-> v]

(***************************************************************************)
(* Header names and content types the code looks for.                      *)
(***************************************************************************)
ContentTypeName == << "C", "o", "n", "t", "e", "n", "t", "-", "T", "y", "p", "e" >>
ContentTypeLower == << "c", "o", "n", "t", "e", "n", "t", "-", "t", "y", "p", "e" >>
FormUrlEncoded ==
    << "a", "p", "p", "l", "i", "c", "a", "t", "i", "o", "n", "/", "x", "-", "w", "w", "w", "-",
       "f", "o", "r", "m", "-", "u", "r", "l", "e", "n", "c", "o", "d", "e", "d" >>
MultipartFormData ==
    << "m", "u", "l", "t", "i", "p", "a", "r", "t", "/", "f", "o", "r", "m", "-", "d", "a", "t", "a" >>
ApplicationJson ==
    << "a", "p", "p", "l", "i", "c", "a", "t", "i", "o", "n", "/", "j", "s", "o", "n" >>
TextPlain == << "t", "e", "x", "t", "/", "p", "l", "a", "i", "n" >>
OctetStream ==
    << "a", "p", "p", "l", "i", "c", "a", "t", "i", "o", "n", "/", "o", "c", "t", "e", "t", "-",
       "s", "t", "r", "e", "a", "m" >>
BlobName == << "b", "l", "o", "b" >>
GetMethod == << "G", "E", "T" >>

(***************************************************************************)
(* Request translator (request.ts).                                        *)
(***************************************************************************)
NoHeaders == [kind |-> "undefined", entries |-> << >>]

\* AxiosHeaders.prototype.toJSON (axios): the entries whose value is neither
\* null/undefined nor false.
AxiosHeadersToJSON(entries) ==
    [k \in {k \in DOMAIN entries :
                ~IsNullish(entries[k]) /\ entries[k] # JsBoolean(FALSE)} |-> entries[k]]

\* AxiosHeaders.prototype.get (axios): the value under the name, compared
\* case-insensitively; undefined when there is none.
AxiosHeadersGet(entries, name) ==
    With({k \in DOMAIN entries : toLowerCase(k) = toLowerCase(name)}, LAMBDA hits :
        IF hits = {} THEN JsUndefined ELSE entries[CHOOSE k \in hits : TRUE])

\* typeof config.headers.toJSON === 'function' ? config.headers.toJSON()
\* : config.headers. A header stored under the name toJSON is an own
\* property that hides the method of AxiosHeaders.
RawHeaders(cfg) ==
    IF /\ cfg.headers.kind = "AxiosHeaders"
       /\ << "t", "o", "J", "S", "O", "N" >> \notin DOMAIN cfg.headers.entries
    THEN AxiosHeadersToJSON(cfg.headers.entries)
    ELSE cfg.headers.entries

\* The own keys an object literal has after obj[key] = value was executed
\* for each of `keys`: the key __proto__ names the prototype accessor of
\* Object.prototype, and assigning to it creates no own property.
ProtoKey == << "_", "_", "p", "r", "o", "t", "o", "_", "_" >>
AssignedKeys(keys) == keys \ {ProtoKey}

transformHeaders(cfg) ==
    IF cfg.headers.kind = "undefined"
    THEN << >>
    ELSE LET raw == RawHeaders(cfg)
         IN  [k \in AssignedKeys({k \in DOMAIN raw : ~IsNullish(raw[k])}) |-> String(raw[k])]

transformHeadersThrows(cfg) ==
    /\ cfg.headers.kind # "undefined"
    /\ \E k \in DOMAIN RawHeaders(cfg) : StringThrows(RawHeaders(cfg)[k])

NoParams == [kind |-> "undefined", entries |-> << >>, pairs |-> << >>]
NoMap == [defined |-> FALSE, map |-> << >>]
SomeMap(m) == [defined |-> TRUE, map |-> m]

ParamValue(v) == IF v.t \in {"boolean", "number"} THEN v ELSE JsString(String(v))

transformParams(cfg) ==
    CASE cfg.params.kind = "undefined" -> NoMap
      [] cfg.params.kind = "URLSearchParams" -> SomeMap(fromEntries(cfg.params.pairs))
      [] OTHER ->
            LET src == cfg.params.entries
                params == [k \in AssignedKeys({k \in DOMAIN src : ~IsNullish(src[k])}) |->
                              ParamValue(src[k])]
            IN  IF DOMAIN params # {} THEN SomeMap(params) ELSE NoMap

transformParamsThrows(cfg) ==
    /\ cfg.params.kind = "object"
    /\ \E k \in DOMAIN cfg.params.entries : StringThrows(cfg.params.entries[k])

(***************************************************************************)
(* Body codec of the axios path: transformData (request.ts).               *)
(***************************************************************************)
\* A request body. kind: "undefined" | "null" | "string" (chars) | "object"
\* (entries) | "URLSearchParams" (pairs) | "FormData" (parts) | "Buffer" (bytes).
NoBody ==
    [kind |-> "undefined", chars |-> << >>, entries |-> << >>, pairs |-> << >>,
     parts |-> << >>, bytes |-> << >>]
NullBody == [NoBody EXCEPT !.kind = "null"]
StringBody(chars) == [NoBody EXCEPT !.kind = "string", !.chars = chars]
ObjectBody(entries) == [NoBody EXCEPT !.kind = "object", !.entries = entries]
SearchParamsBody(pairs) == [NoBody EXCEPT !.kind = "URLSearchParams", !.pairs = pairs]
FormDataBody(parts) == [NoBody EXCEPT !.kind = "FormData", !.parts = parts]
BufferBody(bytes) == [NoBody EXCEPT !.kind = "Buffer", !.bytes = bytes]

\* One entry of a FormData: a string field, or a Blob/File field.
StringPart(key, text) ==
    [key |-> key, isBlob |-> FALSE, isFile |-> FALSE, text |-> text,
     fileName |-> << >>, type |-> << >>, blob |-> 0]
BlobPart(key, isFile, fileName, type, blob) ==
    [key |-> key, isBlob |-> TRUE, isFile |-> isFile, text |-> << >>,
     fileName |-> fileName, type |-> type, blob |-> blob]

\* One entry of a multipart mapping: a string, or {name, mimeType, buffer}.
MultipartString(text) ==
    [file |-> FALSE, text |-> text, name |-> << >>, mimeType |-> << >>, buffer |-> 0]
MultipartFile(name, mimeType, buffer) ==
    [file |-> TRUE, text |-> << >>, name |-> name, mimeType |-> mimeType, buffer |-> buffer]

\* The last part of each key, as forEach assigns multipart[key] in order.
LastPart(parts, key) ==
    parts[CHOOSE j \in 1..Len(parts) :
            /\ parts[j].key = key
            /\ \A m \in (j + 1)..Len(parts) : parts[m].key # key]

\* The keys of the multipart object once forEach has assigned every part.
PartKeys(parts) == AssignedKeys({parts[j].key : j \in 1..Len(parts)})

NoData == [defined |-> FALSE, value |-> NoBody]
NoMultipart == [defined |-> FALSE, src |-> "none", map |-> << >>]
NoBodyOptions == [data |-> NoData, form |-> NoMap, multipart |-> NoMultipart]

\* config.headers?.get?.('Content-Type') calls whatever the headers object
\* holds under get unless that is undefined or null: a header named get,
\* an own property of a plain object or of an AxiosHeaders, is not a
\* function, and the call throws a TypeError.
getContentTypeThrows(cfg) ==
    /\ cfg.headers.kind # "undefined"
    /\ << "g", "e", "t" >> \in DOMAIN cfg.headers.entries
    /\ ~IsNullish(cfg.headers.entries[<< "g", "e", "t" >>])

\* getContentType: config.headers?.get?.('Content-Type'), lower-cased when
\* it is a string. Only an AxiosHeaders object has a get method, and a
\* header stored under the name get hides it: with the value undefined or
\* null nothing is called and the content type is undefined.
getContentType(cfg) ==
    IF cfg.headers.kind = "AxiosHeaders" /\ << "g", "e", "t" >> \notin DOMAIN cfg.headers.entries
    THEN With(AxiosHeadersGet(cfg.headers.entries, ContentTypeName), LAMBDA contentType :
            IF contentType.t = "string" THEN Some(toLowerCase(contentType.s)) ELSE Undefined)
    ELSE Undefined

\* contentType?.includes(needle)
ContentTypeIncludes(ct, needle) == ct.defined /\ includes(ct.chars, needle)

\* Object.entries of the body when typeof data === 'object' reaches the
\* form branch: an object's own entries, a Buffer's index/byte entries.
ObjectEntriesOf(data) ==
    CASE data.kind = "object" -> data.entries
      [] data.kind = "Buffer" ->
            [k \in {NumberToChars(j - 1) : j \in 1..Len(data.bytes)} |->
                JsNumber(data.bytes[(CHOOSE j \in 1..Len(data.bytes) : NumberToChars(j - 1) = k)])]
      [] OTHER -> << >>

\* typeof data === 'object' for the body kinds not handled earlier
IsTypeofObject(data) == data.kind \in {"object", "Buffer"}

transformDataFormData(parts) ==
    [k \in PartKeys(parts) |->
        LET part == LastPart(parts, k)
        IN  IF part.isBlob
            THEN MultipartFile(IF part.isFile THEN part.fileName ELSE BlobName,
                               part.type, part.blob)
            ELSE MultipartString(part.text)]

\* The form branch for an object (lines 108-118): the entries that are
\* neither undefined nor null, booleans and numbers kept, the rest as strings.
FormOfEntries(src) ==
    [k \in AssignedKeys({k \in DOMAIN src : ~IsNullish(src[k])}) |-> ParamValue(src[k])]

transformData(cfg) ==
    With(cfg.data, LAMBDA data :
    With(getContentType(cfg), LAMBDA contentType :
        CASE data.kind \in {"undefined", "null"} -> NoBodyOptions
          [] data.kind = "FormData" ->
                [NoBodyOptions EXCEPT !.multipart =
                    [defined |-> TRUE, src |-> "FormData", map |-> transformDataFormData(data.parts)]]
          [] data.kind = "URLSearchParams" ->
                [NoBodyOptions EXCEPT !.form = SomeMap(fromEntries(data.pairs))]
          [] /\ data.kind = "string"
             /\ ContentTypeIncludes(contentType, FormUrlEncoded) ->
                [NoBodyOptions EXCEPT !.form = SomeMap(fromEntries(URLSearchParamsOf(data.chars)))]
          [] /\ IsTypeofObject(data)
             /\ ContentTypeIncludes(contentType, FormUrlEncoded) ->
                [NoBodyOptions EXCEPT !.form = SomeMap(FormOfEntries(ObjectEntriesOf(data)))]
          [] /\ data.kind = "object"
             /\ ContentTypeIncludes(contentType, MultipartFormData) ->
                [NoBodyOptions EXCEPT !.multipart =
                    [defined |-> TRUE, src |-> "object", map |-> data.entries]]
          [] OTHER -> [NoBodyOptions EXCEPT !.data = [defined |-> TRUE, value |-> data]]))

\* `value instanceof File` (request.ts line 89, fetch-adapter.ts line 59) is
\* evaluated for every Blob or File part forEach visits. A runtime without
\* the global File (Node.js 18) throws a ReferenceError there; fileDefined
\* tells whether the runtime has the global.
instanceofFileThrows(body, fileDefined) ==
    /\ body.kind = "FormData"
    /\ ~fileDefined
    /\ \E j \in 1..Len(body.parts) : body.parts[j].isBlob

\* transformData throws: getContentType for a body that is neither
\* undefined nor null, then the FormData loop, then String(value) of the
\* form branch for a value without toString.
transformDataThrows(cfg, fileDefined) ==
    /\ cfg.data.kind \notin {"undefined", "null"}
    /\ \/ getContentTypeThrows(cfg)
       \/ instanceofFileThrows(cfg.data, fileDefined)
       \/ /\ IsTypeofObject(cfg.data)
          /\ ContentTypeIncludes(getContentType(cfg), FormUrlEncoded)
          /\ \E k \in DOMAIN ObjectEntriesOf(cfg.data) :
                StringThrows(ObjectEntriesOf(cfg.data)[k])

(***************************************************************************)
(* transformRequest (request.ts): the options bag for the executor.        *)
(***************************************************************************)
NoAdapterOptions ==
    [failOnStatusCode |-> NoBool, ignoreHTTPSErrors |-> NoBool,
     maxRedirects |-> NoNum, maxRetries |-> NoNum, timeout |-> NoNum]

\* config.method?.toUpperCase() || 'GET'
MethodOf(cfg) ==
    IF cfg.method.defined /\ cfg.method.chars # << >>
    THEN toUpperCase(cfg.method.chars)
    ELSE GetMethod

\* Mutant of TimeoutOf: every timeout the config carries is forwarded.
TimeoutOfAnyDefined(cfg) == cfg.timeout

\* if (config.timeout && config.timeout > 0) options.timeout = config.timeout
TimeoutOf(cfg) ==
    IF cfg.timeout.defined /\ cfg.timeout.n # 0 /\ cfg.timeout.n > 0
    THEN cfg.timeout
    ELSE NoNum

MaxRedirectsOf(cfg, adapterOpts) ==
    IF adapterOpts.maxRedirects.defined THEN adapterOpts.maxRedirects
    ELSE IF cfg.maxRedirects.defined THEN cfg.maxRedirects
    ELSE NoNum

transformRequest(cfg, adapterOpts) ==
    With(transformData(cfg), LAMBDA body :
        [method |-> MethodOf(cfg),
         headers |-> transformHeaders(cfg),
         params |-> transformParams(cfg),
         data |-> body.data,
         form |-> body.form,
         multipart |-> body.multipart,
         timeout |-> TimeoutOf(cfg),
         failOnStatusCode |-> adapterOpts.failOnStatusCode,
         ignoreHTTPSErrors |-> adapterOpts.ignoreHTTPSErrors,
         maxRedirects |-> MaxRedirectsOf(cfg, adapterOpts),
         maxRetries |-> adapterOpts.maxRetries])

\* transformRequest throws when one of its three translators does.
transformRequestThrows(cfg, fileDefined) ==
    \/ transformHeadersThrows(cfg)
    \/ transformParamsThrows(cfg)
    \/ transformDataThrows(cfg, fileDefined)

(***************************************************************************)
(* Executor responses (Playwright's APIResponse) and the response          *)
(* translator (request.ts lines 220-299, shared.ts getStatusText).         *)
(***************************************************************************)
\* The texts JSON.parse accepts, among the body texts of the model.
ValidJsonTexts == { << "{", "}" >>, << "1" >> }

\* An APIResponse. id names the object; headers is the mapping headers()
\* returns; text is the body; disposed makes body(), text() and json()
\* reject; pooled tells how the executor allocated the Buffer body()
\* resolves with: as a view of a larger ArrayBuffer (Node's allocation pool,
\* as Buffer.from gives for a small body) or as the owner of its ArrayBuffer.
NoApiResponse ==
    [id |-> 0, status |-> 0, statusText |-> << >>, headers |-> << >>, text |-> << >>,
     disposed |-> FALSE, pooled |-> FALSE]

\* response.headers()['content-type'] || ''
ResponseContentType(resp) ==
    IF ContentTypeLower \in DOMAIN resp.headers THEN resp.headers[ContentTypeLower] ELSE << >>

\* getStatusText of shared.ts, as the characters of the text.
getStatusText(status) ==
    Chars(CASE status = 100 -> "Continue"
            [] status = 101 -> "Switching Protocols"
            [] status = 200 -> "OK"
            [] status = 201 -> "Created"
            [] status = 202 -> "Accepted"
            [] status = 204 -> "No Content"
            [] status = 301 -> "Moved Permanently"
            [] status = 302 -> "Found"
            [] status = 304 -> "Not Modified"
            [] status = 400 -> "Bad Request"
            [] status = 401 -> "Unauthorized"
            [] status = 403 -> "Forbidden"
            [] status = 404 -> "Not Found"
            [] status = 405 -> "Method Not Allowed"
            [] status = 408 -> "Request Timeout"
            [] status = 409 -> "Conflict"
            [] status = 410 -> "Gone"
            [] status = 422 -> "Unprocessable Entity"
            [] status = 429 -> "Too Many Requests"
            [] status = 500 -> "Internal Server Error"
            [] status = 501 -> "Not Implemented"
            [] status = 502 -> "Bad Gateway"
            [] status = 503 -> "Service Unavailable"
            [] status = 504 -> "Gateway Timeout"
            [] OTHER -> "Unknown")

\* response.statusText() || getStatusText(response.status())
StatusTextOf(resp) ==
    IF resp.statusText # << >> THEN resp.statusText ELSE getStatusText(resp.status)

\* config.responseType || 'json'
ResponseTypeOf(cfg) == IF cfg.responseType = "" THEN "json" ELSE cfg.responseType

\* parseResponseBody up to its first await: the accessor it calls first.
FirstAccessor(resp, cfg) ==
    LET responseType == ResponseTypeOf(cfg)
    IN  CASE responseType \in {"arraybuffer", "blob", "stream"} -> "body"
          [] responseType = "text" -> "text"
          [] OTHER -> IF includes(ResponseContentType(resp), ApplicationJson)
                      THEN "json" ELSE "text"

\* How the executor settles an accessor's promise: "ok", or the name of the
\* value it rejects with.
AccessorSettles(resp, accessor) ==
    IF resp.disposed THEN "DisposedError"
    ELSE IF accessor = "json" /\ resp.text \notin ValidJsonTexts THEN "SyntaxError"
    ELSE "ok"

\* Buffer.poolSize: the size of the ArrayBuffer small Buffers are views of.
PoolSize == 8192

\* (await response.body()).buffer: the ArrayBuffer behind the Buffer. Its
\* byteLength is the body's, in bytes, when the Buffer owns it and the pool's when the
\* Buffer is a view of the pool, which then holds the body at the Buffer's
\* byteOffset among bytes that are not the body's.
ArrayBufferLength(resp) == IF resp.pooled THEN PoolSize ELSE Utf8Length(resp.text)

\* The type of new Blob(parts, {type}): the empty string when the type has
\* a character outside U+0020..U+007E, the type in lower case otherwise.
BlobType(type) ==
    IF \A k \in 1..Len(type) : type[k] \in Range(AsciiSeq)
    THEN toLowerCase(type)
    ELSE << >>

\* The data parseResponseBody returns once `accessor` resolved. text is the
\* body the data holds; byteLength is the size of the ArrayBuffer for
\* responseType 'arraybuffer' and 0 for the other kinds.
NoResponseData == [kind |-> "none", text |-> << >>, type |-> << >>, byteLength |-> 0]
parseResponseBody(resp, cfg, accessor) ==
    LET responseType == ResponseTypeOf(cfg)
    IN  CASE responseType = "arraybuffer" ->
                [kind |-> "arraybuffer", text |-> resp.text, type |-> << >>,
                 byteLength |-> ArrayBufferLength(resp)]
          [] responseType = "blob" ->
                [kind |-> "blob", text |-> resp.text,
                 type |-> BlobType(ResponseContentType(resp)), byteLength |-> 0]
          [] responseType = "stream" ->
                [kind |-> "buffer", text |-> resp.text, type |-> << >>, byteLength |-> 0]
          [] accessor = "json" ->
                [kind |-> "json", text |-> resp.text, type |-> << >>, byteLength |-> 0]
          [] OTHER ->
                [kind |-> "text", text |-> resp.text, type |-> << >>, byteLength |-> 0]

NoAxiosResponse ==
    [defined |-> FALSE, data |-> NoResponseData, status |-> 0, statusText |-> << >>,
     headers |-> << >>, config |-> 0, request |-> 0]

\* transformResponse once the body has been read; i names the config.
transformResponse(resp, cfg, i, accessor) ==
    [defined |-> TRUE,
     data |-> parseResponseBody(resp, cfg, accessor),
     status |-> resp.status,
     statusText |-> StatusTextOf(resp),
     headers |-> resp.headers,
     config |-> i,
     request |-> resp.id]

(***************************************************************************)
(* Thrown values and the error mapper of the axios adapter.                *)
(***************************************************************************)
\* A thrown value. kind: "AxiosError" | "Error" | "TypeError" | "RangeError" |
\* "string" | "null" | "undefined" | "none". cfg 0 is an undefined config.
NoError ==
    [kind |-> "none", id |-> "none", code |-> "", message |-> "", cfg |-> 0,
     cause |-> "none", request |-> 0, response |-> NoAxiosResponse]

PlainError(name, kind, message) ==
    [NoError EXCEPT !.kind = kind, !.id = name, !.message = message]

\* new AxiosError(message, code, config, request, response)
AxiosError(message, code, cfg, request, response) ==
    [kind |-> "AxiosError", id |-> "new", code |-> code, message |-> message, cfg |-> cfg,
     cause |-> "none", request |-> request, response |-> response]

\* A config that is not the config of any invocation.
ForeignConfig == 0 - 1

\* The values the executor, an accessor or a status predicate can throw.
RejectionNames ==
    {"Error", "EmptyError", "string", "null", "undefined", "AxiosError", "ForeignAxiosError"}

RejectionValue(name) ==
    CASE name = "Error" -> PlainError(name, "Error", "Network error")
      [] name = "EmptyError" -> PlainError(name, "Error", "")
      [] name = "string" -> PlainError(name, "string", "")
      [] name = "null" -> PlainError(name, "null", "")
      [] name = "undefined" -> PlainError(name, "undefined", "")
      [] name = "AxiosError" ->
            [AxiosError("Custom error", "CUSTOM_CODE", 0, 0, NoAxiosResponse) EXCEPT !.id = name]
      [] name = "ForeignAxiosError" ->
            [AxiosError("timeout", "ERR_NETWORK", ForeignConfig, 0, NoAxiosResponse)
                EXCEPT !.id = name]
      [] name = "DisposedError" -> PlainError(name, "Error", "Response has been disposed")
      [] name = "SyntaxError" -> PlainError(name, "Error", "Unexpected token")
      [] name = "PredicateError" -> PlainError(name, "Error", "predicate failed")
      [] OTHER -> NoError

\* error instanceof AxiosError
IsAxiosError(error) == error.kind = "AxiosError"

\* Reading a property of null or undefined throws a TypeError.
PropertyReadThrows(error) == error.kind \in {"null", "undefined"}

\* (error as Error).message || 'Request failed'
MessageOrDefault(error) == IF error.message # "" THEN error.message ELSE "Request failed"

\* Mutant of CatchBlock: no instanceof check, every thrown value is wrapped.
CatchBlockAlwaysWraps(error, i) ==
    IF PropertyReadThrows(error)
    THEN PlainError("new", "TypeError", "Cannot read properties of " \o error.kind)
    ELSE [AxiosError(MessageOrDefault(error), "ERR_NETWORK", i, 0, NoAxiosResponse)
            EXCEPT !.cause = error.id]

\* Mutant of CatchBlock: the wrapping error is constructed without the config.
CatchBlockWithoutConfig(error, i) ==
    IF IsAxiosError(error)
    THEN error
    ELSE IF PropertyReadThrows(error)
    THEN PlainError("new", "TypeError", "Cannot read properties of " \o error.kind)
    ELSE [AxiosError(MessageOrDefault(error), "ERR_NETWORK", 0, 0, NoAxiosResponse)
            EXCEPT !.cause = error.id]

\* The catch block of playwrightAdapter (axios-adapter.ts lines 73-86):
\* the value the adapter's promise rejects with when `error` was thrown
\* inside the try block of invocation i.
CatchBlock(error, i) ==
    IF IsAxiosError(error)
    THEN error
    ELSE IF PropertyReadThrows(error)
    THEN PlainError("new", "TypeError", "Cannot read properties of " \o error.kind)
    ELSE [AxiosError(MessageOrDefault(error), "ERR_NETWORK", i, 0, NoAxiosResponse)
            EXCEPT !.cause = error.id]

\* The caller's validateStatus. kind: "none" (not supplied) | "acceptAll"
\* (() => true) | "success" (status >= 200 && status < 300) | "throws"
\* (throws an Error) | "throwsNull" (throws null).
ValidateStatus(kind, status) ==
    CASE kind = "acceptAll" -> "true"
      [] kind = "success" -> IF status >= 200 /\ status < 300 THEN "true" ELSE "false"
      [] kind = "throws" -> "throws"
      [] kind = "throwsNull" -> "throwsNull"
      [] OTHER -> "none"

StatusErrorMessage(status) == "Request failed with status code " \o ToString(status)

\* Mutant of ValidationThrows: the error is constructed without the request
\* and the response.
ValidationThrowsBareError(cfg, i, resp, axiosResponse) ==
    LET verdict == ValidateStatus(cfg.validateStatus, axiosResponse.status)
    IN  CASE verdict = "false" ->
                AxiosError(StatusErrorMessage(axiosResponse.status), "ERR_BAD_REQUEST", i,
                           0, NoAxiosResponse)
          [] verdict = "throws" -> RejectionValue("PredicateError")
          [] verdict = "throwsNull" -> RejectionValue("null")
          [] OTHER -> NoError

\* Lines 59-72 of axios-adapter.ts once the body has been read: the value
\* thrown inside the try block, or NoError when the response is returned.
ValidationThrows(cfg, i, resp, axiosResponse) ==
    LET verdict == ValidateStatus(cfg.validateStatus, axiosResponse.status)
    IN  CASE verdict = "false" ->
                AxiosError(StatusErrorMessage(axiosResponse.status), "ERR_BAD_REQUEST", i,
                           resp.id, axiosResponse)
          [] verdict = "throws" -> RejectionValue("PredicateError")
          [] verdict = "throwsNull" -> RejectionValue("null")
          [] OTHER -> NoError

(***************************************************************************)
(* Translators of the fetch adapter (fetch-adapter.ts).                    *)
(***************************************************************************)
\* RequestInit['headers']. kind: "undefined" | "Headers" (entries, names in
\* lower case) | "array" (pairs) | "plain" (entries). Values are strings.
NoFetchHeaders == [kind |-> "undefined", entries |-> << >>, pairs |-> << >>]

\* The last value of each name, as the loop assigns result[key] in order.
LastValues(pairs) ==
    [k \in AssignedKeys({pairs[j][1] : j \in 1..Len(pairs)}) |->
        pairs[CHOOSE j \in 1..Len(pairs) :
                /\ pairs[j][1] = k
                /\ \A m \in (j + 1)..Len(pairs) : pairs[m][1] # k][2]]

\* transformHeaders of fetch-adapter.ts
fetchTransformHeaders(headers) ==
    CASE headers.kind = "undefined" -> NoMap
      [] headers.kind = "array" -> SomeMap(LastValues(headers.pairs))
      [] headers.kind = "Headers" ->
            SomeMap([k \in AssignedKeys(DOMAIN headers.entries) |-> headers.entries[k]])
      [] OTHER -> SomeMap(headers.entries)

\* init?.headers || (input instanceof Request ? Object.fromEntries(input.headers) : undefined)
FetchHeadersArgument(input) ==
    IF input.hasInit /\ input.headers.kind # "undefined"
    THEN input.headers
    ELSE IF input.inputKind = "Request"
    THEN [kind |-> "plain", entries |-> input.requestHeaders, pairs |-> << >>]
    ELSE NoFetchHeaders

\* init?.method || (input instanceof Request ? input.method : 'GET')
FetchMethodOf(input) ==
    IF input.hasInit /\ input.method.defined /\ input.method.chars # << >>
    THEN input.method.chars
    ELSE IF input.inputKind = "Request" THEN input.requestMethod
    ELSE GetMethod

\* headers?.['content-type']?.toLowerCase() || headers?.['Content-Type']?.toLowerCase()
FetchContentType(headers) ==
    IF /\ headers.defined
       /\ ContentTypeLower \in DOMAIN headers.map
       /\ headers.map[ContentTypeLower] # << >>
    THEN Some(toLowerCase(headers.map[ContentTypeLower]))
    ELSE IF headers.defined /\ ContentTypeName \in DOMAIN headers.map
    THEN Some(toLowerCase(headers.map[ContentTypeName]))
    ELSE Undefined

transformBodyFormData(parts) ==
    [k \in PartKeys(parts) |->
        LET part == LastPart(parts, k)
        IN  IF part.isBlob
            THEN MultipartFile(IF part.isFile THEN part.fileName ELSE BlobName,
                               IF part.type # << >> THEN part.type ELSE OctetStream,
                               part.blob)
            ELSE MultipartString(part.text)]

\* transformBody throws where the FormData loop evaluates instanceof File
\* on a runtime without the global.
transformBodyThrows(body, fileDefined) == instanceofFileThrows(body, fileDefined)

\* Mutant of transformBody: the form branches also hand the body over as
\* data.
transformBodyKeepingData(body, headers) ==
    CASE body.kind \in {"undefined", "null"} -> NoBodyOptions
      [] body.kind = "FormData" ->
            [NoBodyOptions EXCEPT !.multipart =
                [defined |-> TRUE, src |-> "FormData", map |-> transformBodyFormData(body.parts)]]
      [] body.kind = "URLSearchParams" ->
            [NoBodyOptions EXCEPT !.form = SomeMap(fromEntries(body.pairs)),
                                  !.data = [defined |-> TRUE, value |-> body]]
      [] /\ body.kind = "string"
         /\ ContentTypeIncludes(FetchContentType(headers), FormUrlEncoded) ->
            [NoBodyOptions EXCEPT !.form = SomeMap(fromEntries(URLSearchParamsOf(body.chars))),
                                  !.data = [defined |-> TRUE, value |-> body]]
      [] OTHER -> [NoBodyOptions EXCEPT !.data = [defined |-> TRUE, value |-> body]]

transformBody(body, headers) ==
    CASE body.kind \in {"undefined", "null"} -> NoBodyOptions
      [] body.kind = "FormData" ->
            [NoBodyOptions EXCEPT !.multipart =
                [defined |-> TRUE, src |-> "FormData", map |-> transformBodyFormData(body.parts)]]
      [] body.kind = "URLSearchParams" ->
            [NoBodyOptions EXCEPT !.form = SomeMap(fromEntries(body.pairs))]
      [] /\ body.kind = "string"
         /\ ContentTypeIncludes(FetchContentType(headers), FormUrlEncoded) ->
            [NoBodyOptions EXCEPT !.form = SomeMap(fromEntries(URLSearchParamsOf(body.chars)))]
      [] OTHER -> [NoBodyOptions EXCEPT !.data = [defined |-> TRUE, value |-> body]]

\* A fetch Response, as toResponse constructs it.
NoFetchResponse ==
    [defined |-> FALSE, status |-> 0, statusText |-> << >>, headers |-> << >>, body |-> << >>]

\* new Headers(record) (fetch-adapter.ts line 92). The record is copied, key
\* by key, into a fresh object, whose entries are appended: a name must be a
\* token, a value is stripped of the HTTP whitespace around it and must then
\* hold no NUL, line feed or carriage return, and no character above U+00FF;
\* the constructor throws a TypeError otherwise. The copy has no entry for
\* the key __proto__ (see AssignedKeys), whose value is only converted to a
\* byte string.
HeaderNameChars ==
    Letters \cup Digits
        \cup {"!", "#", "$", "%", "&", "'", "*", "+", "-", ".", "^", "_", "U+0060", "|", "~"}
HttpWhitespace == {"\t", "\n", "\r", " "}

RECURSIVE StripLeadingWhitespace(_)
StripLeadingWhitespace(v) ==
    IF v # << >> /\ v[1] \in HttpWhitespace THEN StripLeadingWhitespace(Tail(v)) ELSE v

RECURSIVE StripTrailingWhitespace(_)
StripTrailingWhitespace(v) ==
    IF v # << >> /\ v[Len(v)] \in HttpWhitespace
    THEN StripTrailingWhitespace(SubSeq(v, 1, Len(v) - 1))
    ELSE v

NormalizeHeaderValue(v) == StripTrailingWhitespace(StripLeadingWhitespace(v))

IsHeaderName(name) == name # << >> /\ \A k \in 1..Len(name) : name[k] \in HeaderNameChars

IsByteChar(c) == CodeOfChar(c) <= 255

IsHeaderValue(v) ==
    \A k \in 1..Len(v) : v[k] \notin {"U+0000", "\n", "\r"} /\ IsByteChar(v[k])

HeadersThrows(headers) ==
    \E name \in DOMAIN headers :
        IF name = ProtoKey
        THEN \E k \in 1..Len(headers[name]) : ~IsByteChar(headers[name][k])
        ELSE ~IsHeaderName(name) \/ ~IsHeaderValue(NormalizeHeaderValue(headers[name]))

\* The orders in which the names of a mapping can be enumerated: the
\* mapping of the model does not hold the order of the object's keys.
KeyOrders(headers) ==
    {order \in [1..Cardinality(DOMAIN headers) -> DOMAIN headers] :
        \A a, b \in 1..Cardinality(DOMAIN headers) : a # b => order[a] # order[b]}

RECURSIVE CombinedValue(_, _, _, _)
\* The value of lower-case name `lower` once the names order[pos..] have
\* been appended: the values of the names that are `lower` without regard
\* to case, joined by ", ".
CombinedValue(headers, order, lower, pos) ==
    IF pos > Len(order) THEN << >>
    ELSE With(CombinedValue(headers, order, lower, pos + 1), LAMBDA rest :
            IF toLowerCase(order[pos]) # lower THEN rest
            ELSE NormalizeHeaderValue(headers[order[pos]])
                    \o (IF \A k \in (pos + 1)..Len(order) : toLowerCase(order[k]) # lower
                        THEN << >> ELSE << ",", " " >> \o rest))

\* The Headers object: lower-case names, normalized values; order is the
\* order of the keys of the record, of which __proto__ is not copied.
HeadersOf(headers, order) ==
    With(SelectSeq(order, LAMBDA name : name # ProtoKey), LAMBDA copied :
        [lower \in {toLowerCase(copied[k]) : k \in 1..Len(copied)} |->
            CombinedValue(headers, copied, lower, 1)])

\* toResponse once body() has resolved and the Headers and the Response
\* have been constructed; order is the order of the keys of headers(). The
\* Response holds a copy of the Headers of line 92: the constructor appends
\* each name with its combined value to the Response's own header list,
\* which strips the value once more. The values of set-cookie are appended
\* one by one, and combine to what they were.
toResponse(resp, order) ==
    With(HeadersOf(resp.headers, order), LAMBDA init :
        [defined |-> TRUE, status |-> resp.status, statusText |-> StatusTextOf(resp),
         headers |-> [lower \in DOMAIN init |->
                        IF lower = << "s", "e", "t", "-", "c", "o", "o", "k", "i", "e" >>
                        THEN init[lower]
                        ELSE NormalizeHeaderValue(init[lower])],
         body |-> resp.text])

\* Statuses whose Response must have no body (Fetch standard).
NullBodyStatuses == {101, 204, 205, 304}

\* A reason phrase (Fetch standard): tab, space, the visible ASCII
\* characters and U+0080..U+00FF.
IsReasonPhrase(statusText) ==
    \A k \in 1..Len(statusText) :
        With(CodeOfChar(statusText[k]), LAMBDA code :
            code = 9 \/ (code >= 32 /\ code <= 126) \/ (code >= 128 /\ code <= 255))

\* new Response(body, {status, statusText, headers}) with the Buffer of
\* body() (fetch-adapter.ts line 96), as the name of what it throws or "ok".
\* The members of the init are converted first: a TypeError for a status
\* text with a character above U+00FF. Then a RangeError unless
\* 200 <= status <= 599, a TypeError for a status text that is no reason
\* phrase and, for a null-body status, the TypeError of a runtime that
\* enforces the Fetch standard (strict), while the runtime of the
\* repository's tests accepts such a status.
ResponseConstructor(status, statusText, strict) ==
    IF \E k \in 1..Len(statusText) : ~IsByteChar(statusText[k]) THEN "TypeError"
    ELSE IF status < 200 \/ status > 599 THEN "RangeError"
    ELSE IF ~IsReasonPhrase(statusText) THEN "TypeError"
    ELSE IF strict /\ status \in NullBodyStatuses THEN "TypeError"
    ELSE "ok"

(***************************************************************************)
(* The options handed to requestContext.fetch.                             *)
(***************************************************************************)
NoFetchArgs ==
    [url |-> << >>,
     options |-> [method |-> << >>, headers |-> NoMap, params |-> NoMap, data |-> NoData,
                  form |-> NoMap, multipart |-> NoMultipart, timeout |-> NoNum,
                  failOnStatusCode |-> NoBool, ignoreHTTPSErrors |-> NoBool,
                  maxRedirects |-> NoNum, maxRetries |-> NoNum]]

\* Mutant of FailOnStatusCodeOrFalse: the option is passed on as translated.
FailOnStatusCodeUndefaulted(requestOptions) == requestOptions.failOnStatusCode

\* requestOptions.failOnStatusCode ?? false
FailOnStatusCodeOrFalse(requestOptions) ==
    IF requestOptions.failOnStatusCode.defined THEN requestOptions.failOnStatusCode ELSE Bool(FALSE)

\* Mutant of AdapterFetchArgs: the url and options are computed once, from
\* the config of the first invocation, and reused by the later ones.
AdapterFetchArgsCached(cfg, adapterOpts) ==
    With(transformRequest(config[1], adapterOpts), LAMBDA requestOptions :
        [url |-> buildUrl(config[1]),
         options |-> [method |-> requestOptions.method,
                      headers |-> SomeMap(requestOptions.headers),
                      params |-> requestOptions.params,
                      data |-> requestOptions.data,
                      form |-> requestOptions.form,
                      multipart |-> requestOptions.multipart,
                      timeout |-> requestOptions.timeout,
                      failOnStatusCode |-> FailOnStatusCodeOrFalse(requestOptions),
                      ignoreHTTPSErrors |-> requestOptions.ignoreHTTPSErrors,
                      maxRedirects |-> requestOptions.maxRedirects,
                      maxRetries |-> requestOptions.maxRetries]])

\* axios-adapter.ts lines 45-57
AdapterFetchArgs(cfg, adapterOpts) ==
    With(transformRequest(cfg, adapterOpts), LAMBDA requestOptions :
        [url |-> buildUrl(cfg),
         options |-> [method |-> requestOptions.method,
                      headers |-> SomeMap(requestOptions.headers),
                      params |-> requestOptions.params,
                      data |-> requestOptions.data,
                      form |-> requestOptions.form,
                      multipart |-> requestOptions.multipart,
                      timeout |-> requestOptions.timeout,
                      failOnStatusCode |-> FailOnStatusCodeOrFalse(requestOptions),
                      ignoreHTTPSErrors |-> requestOptions.ignoreHTTPSErrors,
                      maxRedirects |-> requestOptions.maxRedirects,
                      maxRetries |-> requestOptions.maxRetries]])

\* fetch-adapter.ts lines 132-145
FetchFetchArgs(input, adapterOpts) ==
    With(fetchTransformHeaders(FetchHeadersArgument(input)), LAMBDA headers :
    With(transformBody(IF input.hasInit THEN input.body ELSE NoBody, headers), LAMBDA bodyOptions :
        [url |-> input.url,
         options |-> [method |-> FetchMethodOf(input),
                      headers |-> headers,
                      params |-> NoMap,
                      data |-> bodyOptions.data,
                      form |-> bodyOptions.form,
                      multipart |-> bodyOptions.multipart,
                      timeout |-> adapterOpts.timeout,
                      failOnStatusCode |-> NoBool,
                      ignoreHTTPSErrors |-> adapterOpts.ignoreHTTPSErrors,
                      maxRedirects |-> adapterOpts.maxRedirects,
                      maxRetries |-> adapterOpts.maxRetries]]))

(***************************************************************************)
(* Inputs of the model.                                                    *)
(***************************************************************************)
UrlUsers == << "/", "u" >>
BaseUrl == << "h", ":", "/", "/", "a" >>
KeyA == << "a" >>
PostLower == << "p", "o", "s", "t" >>

\* An InternalAxiosRequestConfig. signal: whether config.signal is supplied
\* (its aborted flag is the variable signalAborted). responseType "" is
\* an absent responseType.
DefaultConfig ==
    [url |-> Some(UrlUsers), baseURL |-> Some(BaseUrl), method |-> Some(PostLower),
     headers |-> [kind |-> "AxiosHeaders", entries |-> << >>],
     params |-> NoParams, data |-> NoBody, timeout |-> NoNum, maxRedirects |-> NoNum,
     ignoreHTTPSErrors |-> NoBool, maxRetries |-> NoNum,
     responseType |-> "", validateStatus |-> "none", signal |-> FALSE]

ValidateStatusKinds == {"none", "acceptAll", "success", "throws"}

\* The configs of the error-handling specification: every combination of
\* signal, status predicate and response type, with params that translate
\* and params whose translation throws.
ErrorConfigs ==
    { [DefaultConfig EXCEPT !.signal = sig, !.validateStatus = vs,
                            !.responseType = rt, !.params = pr] :
        sig \in BOOLEAN, vs \in ValidateStatusKinds,
        rt \in {"", "text", "arraybuffer"},
        pr \in { NoParams,
                 [kind |-> "object", entries |-> (KeyA :> JsNumber(1)), pairs |-> << >>],
                 [kind |-> "object", entries |-> (KeyA :> JsNullProto), pairs |-> << >>] } }

\* The (input, init) pair of a playwrightFetch call. signal: init.signal is
\* supplied; requestSignal: the Request input carries a signal the caller
\* controls. Either one's aborted flag is the variable signalAborted.
DefaultFetchInput ==
    [inputKind |-> "string", url |-> BaseUrl \o UrlUsers, requestMethod |-> GetMethod,
     requestHeaders |-> << >>, requestSignal |-> FALSE,
     hasInit |-> FALSE, method |-> Undefined, headers |-> NoFetchHeaders,
     body |-> NoBody, signal |-> FALSE]

ErrorFetchInputs ==
    { [DefaultFetchInput EXCEPT !.inputKind = "Request", !.requestSignal = sig] :
        sig \in BOOLEAN }
    \cup
    { [DefaultFetchInput EXCEPT !.inputKind = kind, !.hasInit = TRUE, !.signal = sig,
                                !.method = m, !.body = b] :
        kind \in {"string", "URL"}, sig \in BOOLEAN,
        m \in {Undefined, Some(PostLower)},
        b \in {NoBody, StringBody(KeyA)} }

\* The configs of the response-translation specification: every response
\* type with every status predicate.
ResponseTypes == {"", "json", "text", "arraybuffer", "blob", "stream"}
ResponseConfigs ==
    { [DefaultConfig EXCEPT !.validateStatus = vs, !.responseType = rt] :
        vs \in ValidateStatusKinds \cup {"throwsNull"}, rt \in ResponseTypes }

HasSignal(i) ==
    IF pipeline[i] = "axios" THEN config[i].signal
    ELSE fetchInput[i].requestSignal \/ (fetchInput[i].hasInit /\ fetchInput[i].signal)

AdapterOptionSets ==
    { NoAdapterOptions,
      [NoAdapterOptions EXCEPT !.maxRetries = Num(2), !.failOnStatusCode = Bool(TRUE)] }

Statuses == {200, 204, 404, 418, 500, 999}

\* The responses the executor can return to invocation i. The set-cookie
\* header is two Set-Cookie headers as APIResponse.headers() returns them:
\* joined by a line feed under one name.
Responses(i) ==
    [id : {i}, status : Statuses, statusText : {<< >>, Chars("Custom")},
     headers : { << >>, (ContentTypeLower :> ApplicationJson), (ContentTypeLower :> TextPlain),
                 (<< "s", "e", "t", "-", "c", "o", "o", "k", "i", "e" >>
                      :> << "a", "=", "1", "\n", "b", "=", "2" >>) },
     text : { << "{", "}" >>, << "o", "k" >> },
     disposed : BOOLEAN,
     pooled : BOOLEAN]

\* Responses with a status text that is no reason phrase (a carriage
\* return), one outside Latin-1 (the euro sign) and one in Latin-1 (e with
\* acute), a header named __proto__ and a body of which the UTF-8 encoding
\* is longer than the text.
SpecialResponses(i) ==
    [id : {i}, status : {200, 999},
     statusText : { << "B", "\r" >>, << "U+20AC" >>, << "U+00E9" >> },
     headers : { (ProtoKey :> << "x" >>) @@ (ContentTypeLower :> TextPlain) },
     text : { << "U+00E9", "U+20AC" >> },
     disposed : {FALSE},
     pooled : {FALSE}]

\* The responses the executor returns to an invocation whose input is not one
\* of the error-handling inputs: a JSON body, a 404 with text, a response
\* disposed before its body is read and a JSON content type with invalid
\* JSON.
BasicResponses(i) ==
    { [id |-> i, status |-> 200, statusText |-> << >>,
       headers |-> (ContentTypeLower :> ApplicationJson), text |-> << "{", "}" >>,
       disposed |-> FALSE, pooled |-> TRUE],
      [id |-> i, status |-> 404, statusText |-> << >>,
       headers |-> (ContentTypeLower :> TextPlain), text |-> << "o", "k" >>,
       disposed |-> FALSE, pooled |-> TRUE],
      [id |-> i, status |-> 200, statusText |-> << >>,
       headers |-> (ContentTypeLower :> TextPlain), text |-> << "o", "k" >>,
       disposed |-> TRUE, pooled |-> TRUE],
      [id |-> i, status |-> 200, statusText |-> << >>,
       headers |-> (ContentTypeLower :> ApplicationJson), text |-> << "o", "k" >>,
       disposed |-> FALSE, pooled |-> TRUE] }

BasicRejectionNames == {"Error", "ForeignAxiosError"}

\* Invocation i has one of the inputs of the error-handling or of the
\* response-translation specification.
HasErrorInput(i) ==
    IF pipeline[i] = "axios" THEN config[i] \in ErrorConfigs \cup ResponseConfigs
    ELSE fetchInput[i] \in ErrorFetchInputs

\* What the executor can answer to invocation i: every response and rejection
\* for the error-handling and response-translation inputs, the basic ones
\* for the other inputs.
ExecutorResponses(i) ==
    IF HasErrorInput(i) THEN Responses(i) \cup SpecialResponses(i) ELSE BasicResponses(i)
ExecutorRejections(i) == IF HasErrorInput(i) THEN RejectionNames ELSE BasicRejectionNames

NoExecResult == [state |-> "none", response |-> NoApiResponse, error |-> "none"]
NoOutcome ==
    [state |-> "pending", response |-> NoAxiosResponse, fetchResponse |-> NoFetchResponse,
     error |-> NoError]
NoAccessorCalls == [body |-> 0, text |-> 0, json |-> 0]

\* State shared by every initial state: nothing has run yet.
\* The runtime the adapters run in: its Unicode version is the one thing of
\* it the translation depends on, and no call changes it.
InitRuntime == unicodeVersion \in UnicodeVersions

InitFresh ==
    /\ signalSeen = [i \in Calls |-> "unchecked"]
    /\ fetchCalls = [i \in Calls |-> 0]
    /\ fetchArgs = [i \in Calls |-> NoFetchArgs]
    /\ execResult = [i \in Calls |-> NoExecResult]
    /\ accessorCalls = [i \in Calls |-> NoAccessorCalls]
    /\ pending = [i \in Calls |-> "none"]
    /\ outcome = [i \in Calls |-> NoOutcome]

\* One invocation, of either entry point, with the error-handling inputs.
Init ==
    /\ InitRuntime
    /\ \E p \in {"axios", "fetch"} :
          /\ pipeline = [i \in Calls |-> IF i = 1 THEN p ELSE "unused"]
          /\ \E c \in ErrorConfigs :
                config = [i \in Calls |-> IF i = 1 /\ p = "axios" THEN c ELSE DefaultConfig]
          /\ \E f \in ErrorFetchInputs :
                fetchInput = [i \in Calls |-> IF i = 1 /\ p = "fetch" THEN f ELSE DefaultFetchInput]
    /\ adapterOptions \in AdapterOptionSets
    /\ \E a \in BOOLEAN :
          signalAborted = [i \in Calls |-> a /\ i = 1 /\ HasSignal(i)]
    /\ pc = [i \in Calls |-> IF i = 1 THEN "start" ELSE "unused"]
    /\ InitFresh

\* One invocation, of either entry point, with the response-translation
\* inputs.
InitResponse ==
    /\ InitRuntime
    /\ \/ /\ pipeline = [i \in Calls |-> IF i = 1 THEN "axios" ELSE "unused"]
          /\ \E c \in ResponseConfigs :
                config = [i \in Calls |-> IF i = 1 THEN c ELSE DefaultConfig]
          /\ fetchInput = [i \in Calls |-> DefaultFetchInput]
       \/ /\ pipeline = [i \in Calls |-> IF i = 1 THEN "fetch" ELSE "unused"]
          /\ config = [i \in Calls |-> DefaultConfig]
          /\ \E f \in ErrorFetchInputs :
                fetchInput = [i \in Calls |-> IF i = 1 THEN f ELSE DefaultFetchInput]
    /\ adapterOptions = NoAdapterOptions
    /\ signalAborted = [i \in Calls |-> FALSE]
    /\ pc = [i \in Calls |-> IF i = 1 THEN "start" ELSE "unused"]
    /\ InitFresh

\* The configs of the policy specification: one family over the timeout,
\* one over the three policy knobs a config can carry.
TimeoutInputs == {NoNum, Num(0), Num(0 - 1), Num(1), Num(5)}
PolicyConfigs ==
    { [DefaultConfig EXCEPT !.timeout = t, !.signal = sig] :
        t \in TimeoutInputs, sig \in BOOLEAN }
    \cup
    { [DefaultConfig EXCEPT !.maxRedirects = mr, !.ignoreHTTPSErrors = ih, !.maxRetries = rt] :
        mr \in {NoNum, Num(0), Num(5)},
        ih \in {NoBool, Bool(TRUE), Bool(FALSE)},
        rt \in {NoNum, Num(0), Num(3)} }

\* The options an adapter can be constructed with
\* (createPlaywrightAdapter(request, options)).
PolicyOptionSets ==
    { [NoAdapterOptions EXCEPT !.failOnStatusCode = fs, !.ignoreHTTPSErrors = ih,
                               !.maxRedirects = mr, !.maxRetries = rt] :
        fs \in {NoBool, Bool(TRUE), Bool(FALSE)},
        ih \in {NoBool, Bool(TRUE), Bool(FALSE)},
        mr \in {NoNum, Num(0), Num(10)},
        rt \in {NoNum, Num(0), Num(2)} }

\* One invocation, of either entry point, of an adapter constructed with
\* any of the policy options.
InitPolicy ==
    /\ InitRuntime
    /\ \/ /\ pipeline = [i \in Calls |-> IF i = 1 THEN "axios" ELSE "unused"]
          /\ \E c \in PolicyConfigs :
                config = [i \in Calls |-> IF i = 1 THEN c ELSE DefaultConfig]
          /\ fetchInput = [i \in Calls |-> DefaultFetchInput]
       \/ /\ pipeline = [i \in Calls |-> IF i = 1 THEN "fetch" ELSE "unused"]
          /\ config = [i \in Calls |-> DefaultConfig]
          /\ \E sig \in BOOLEAN :
                fetchInput = [i \in Calls |->
                                IF i = 1
                                THEN [DefaultFetchInput EXCEPT !.hasInit = TRUE, !.signal = sig]
                                ELSE DefaultFetchInput]
    /\ adapterOptions \in PolicyOptionSets
    /\ \E a \in BOOLEAN :
          signalAborted = [i \in Calls |-> a /\ i = 1 /\ HasSignal(i)]
    /\ pc = [i \in Calls |-> IF i = 1 THEN "start" ELSE "unused"]
    /\ InitFresh

(***************************************************************************)
(* Inputs of the request-translation specification.                        *)
(***************************************************************************)
MaxUrlLen == 4

\* Every sequence over S of length at most n.
SeqsUpTo(S, n) == UNION {[1..k -> S] : k \in 0..n}

\* Urls: every string over a letter, the slash and the colon up to
\* MaxUrlLen, and schemes with upper case, digits and punctuation.
ExtraUrls ==
    { << "A", "1", "+", "-", ".", ":", "/", "/", "x" >>,
      << "1", "a", ":", "/", "/", "x" >>,
      << "+", ":", "/", "/", "x" >>,
      << "/", "/", "/", "u", "/" >>,
      << "/", "u", "/", "/" >>,
      << "?", "a" >> }

UrlInputs == {Undefined} \cup {Some(u) : u \in SeqsUpTo({"a", "/", ":"}, MaxUrlLen) \cup ExtraUrls}

BaseUrlInputs ==
    { Undefined, Some(<< >>), Some(<< "b" >>), Some(<< "b", "/" >>), Some(<< "b", "/", "/" >>),
      Some(BaseUrl \o << "/", "/", "/" >>) }

UrlConfigs == {[DefaultConfig EXCEPT !.url = u, !.baseURL = b] : u \in UrlInputs, b \in BaseUrlInputs}

\* Methods, in lower, mixed and upper case, empty and absent, and one with
\* letters outside ASCII: U+0264, which has an upper case from Unicode 16.0
\* on, the sharp s, of which the upper case is two letters, and the small
\* sigma.
MethodInputs ==
    { Undefined, Some(<< >>), Some(<< "g", "e", "t" >>), Some(<< "P", "o", "s", "t" >>),
      Some(<< "p", "A", "t", "C", "h" >>), Some(<< "D", "E", "L", "E", "T", "E" >>),
      Some(<< "g", "U+0264", "U+00DF", "U+03C3" >>) }

MethodConfigs == {[DefaultConfig EXCEPT !.method = m, !.signal = TRUE] : m \in MethodInputs}

MethodFetchInputs ==
    { [DefaultFetchInput EXCEPT !.inputKind = kind, !.requestMethod = rm, !.hasInit = hi,
                                !.method = m, !.signal = hi] :
        kind \in {"string", "URL", "Request"},
        rm \in {GetMethod, << "P", "U", "T" >>},
        hi \in BOOLEAN, m \in MethodInputs }

\* Header and parameter mappings: up to two keys, with every kind of value.
KeyB == << "B" >>
MappingValues ==
    { JsUndefined, JsNull, JsString(<< "x" >>), JsString(<< >>), JsNumber(0), JsNumber(12),
      JsBoolean(FALSE), JsBoolean(TRUE), JsObject, JsNullProto }
Mappings == UNION {[K -> MappingValues] : K \in SUBSET {KeyA, KeyB}}

HeaderConfigs ==
    { [DefaultConfig EXCEPT !.headers = NoHeaders] }
    \cup
    { [DefaultConfig EXCEPT !.headers = [kind |-> k, entries |-> e]] :
        k \in {"AxiosHeaders", "plain"}, e \in Mappings }

MaxPairs == 2
PairInputs == SeqsUpTo({<< k, v >> : k \in {KeyA, KeyB}, v \in {<< >>, << "1" >>}}, MaxPairs)

ParamConfigs ==
    { [DefaultConfig EXCEPT !.params = [kind |-> "object", entries |-> e, pairs |-> << >>]] :
        e \in Mappings }
    \cup
    { [DefaultConfig EXCEPT !.params = [kind |-> "URLSearchParams", entries |-> << >>,
                                        pairs |-> ps]] :
        ps \in PairInputs }

\* Bodies of every kind the codecs distinguish.
FormString == << "a", "=", "1", "&", "b", "=", "2" >>
StringBodies ==
    { StringBody(<< >>), StringBody(FormString), StringBody(<< "a" >>),
      StringBody(<< "a", "=", "%", "C", "3", "U+00A9" >>),
      StringBody(<< "?", "b", "=", "%", "E", "2", "%", "8", "2", "%", "A", "C", "+", "%" >>) }
SearchParamsBodies ==
    { SearchParamsBody(<< >>), SearchParamsBody(<< << KeyA, << "1" >> >> >>) }
FormDataBodies ==
    { FormDataBody(<< >>),
      FormDataBody(<< StringPart(KeyA, << "x" >>) >>),
      FormDataBody(<< BlobPart(KeyA, FALSE, << >>, << >>, 1) >>),
      FormDataBody(<< BlobPart(KeyA, TRUE, << "f" >>, TextPlain, 1), StringPart(KeyB, << "x" >>) >>) }
ObjectBodies ==
    { ObjectBody(<< >>), ObjectBody(KeyA :> JsNumber(1)),
      ObjectBody((KeyA :> JsNull) @@ (KeyB :> JsString(<< "x" >>))) }
BufferBodies == { BufferBody(<< 7 >>) }

AxiosBodies ==
    {NoBody, NullBody} \cup StringBodies \cup SearchParamsBodies \cup FormDataBodies
        \cup ObjectBodies \cup BufferBodies
FetchBodies ==
    {NoBody, NullBody} \cup StringBodies \cup SearchParamsBodies \cup FormDataBodies
        \cup BufferBodies

\* Content-Type headers: the name in three letter cases, the value in lower
\* case, in upper case, with a parameter, and one that starts with the
\* Kelvin sign, of which the lower case is the letter k, U+0295, a cased
\* letter until Unicode 15.1 only, and a capital sigma, which is final after
\* a cased letter.
ContentTypeNames == {ContentTypeName, ContentTypeLower, toUpperCase(ContentTypeName)}
ContentTypeValues ==
    { FormUrlEncoded, toUpperCase(FormUrlEncoded), FormUrlEncoded \o << ";", "q" >>,
      MultipartFormData, ApplicationJson,
      << "U+212A", "U+0295", "U+03A3", ";" >> \o toUpperCase(FormUrlEncoded) }

AxiosContentTypeHeaders ==
    { NoHeaders, [kind |-> "AxiosHeaders", entries |-> << >>],
      [kind |-> "AxiosHeaders", entries |-> (ContentTypeName :> JsNumber(1))] }
    \cup
    { [kind |-> k, entries |-> (n :> JsString(v))] :
        k \in {"AxiosHeaders", "plain"}, n \in ContentTypeNames, v \in ContentTypeValues }

BodyConfigs ==
    { [DefaultConfig EXCEPT !.headers = h, !.data = d] :
        h \in AxiosContentTypeHeaders, d \in AxiosBodies }

\* A Headers object holds its names in lower case whatever case they were
\* set with.
FetchContentTypeHeaders ==
    { NoFetchHeaders }
    \cup
    { [kind |-> "Headers", entries |-> (toLowerCase(n) :> v), pairs |-> << >>] :
        n \in ContentTypeNames, v \in ContentTypeValues }
    \cup
    { [kind |-> "plain", entries |-> (n :> v), pairs |-> << >>] :
        n \in ContentTypeNames, v \in ContentTypeValues }
    \cup
    { [kind |-> "array", entries |-> << >>, pairs |-> << << n, v >> >>] :
        n \in ContentTypeNames, v \in ContentTypeValues }

BodyFetchInputs ==
    { [DefaultFetchInput EXCEPT !.hasInit = TRUE, !.method = Some(toUpperCase(PostLower)),
                                !.headers = h, !.body = b] :
        h \in FetchContentTypeHeaders, b \in FetchBodies }

\* Form bodies for the round trip: sequences of name/value pairs, with
\* repeated names and with characters the encoding escapes, as the string
\* their serialization gives and as a URLSearchParams.
MaxFormPairs == 2
RoundTripPairs ==
    SeqsUpTo({<< k, v >> : k \in { KeyA, << "b", "=" >> },
                           v \in { << >>, << "1" >>, << " " >>, << "&", "=" >>, << "+" >>,
                                   << "%" >> }},
             MaxFormPairs)
RoundTripBodies ==
    { StringBody(EncodeForm(ps)) : ps \in RoundTripPairs }
        \cup { SearchParamsBody(ps) : ps \in RoundTripPairs }

RoundTripConfigs ==
    { [DefaultConfig EXCEPT
          !.headers = [kind |-> "AxiosHeaders",
                       entries |-> (ContentTypeName :> JsString(FormUrlEncoded))],
          !.data = b] : b \in RoundTripBodies }

RoundTripFetchInputs ==
    { [DefaultFetchInput EXCEPT
          !.hasInit = TRUE, !.method = Some(toUpperCase(PostLower)),
          !.headers = [kind |-> "Headers", entries |-> (ContentTypeLower :> FormUrlEncoded),
                       pairs |-> << >>],
          !.body = b] : b \in RoundTripBodies }

\* Mappings and collections with an own key __proto__ (as JSON.parse and
\* the collections' set methods create it), and headers with a header
\* named get, of which the value may be null or undefined.
ProtoMappings ==
    { (ProtoKey :> JsString(<< "x" >>)), (ProtoKey :> JsNumber(1)) @@ (KeyA :> JsNumber(2)) }
ProtoParts ==
    { << StringPart(ProtoKey, << "x" >>), StringPart(KeyA, << "1" >>) >>,
      << BlobPart(ProtoKey, FALSE, << >>, TextPlain, 1), StringPart(KeyA, << "1" >>) >> }
GetHeaders(k) == [kind |-> k, entries |-> (<< "g", "e", "t" >> :> JsString(<< "x" >>))]
NullishGetHeaders(value) ==
    [kind |-> "AxiosHeaders",
     entries |-> (<< "g", "e", "t" >> :> value) @@ (ContentTypeName :> JsString(FormUrlEncoded))]
FormHeaders == [kind |-> "AxiosHeaders", entries |-> (ContentTypeName :> JsString(FormUrlEncoded))]

OwnKeyConfigs ==
    { [DefaultConfig EXCEPT !.headers = [kind |-> "plain", entries |-> e]] : e \in ProtoMappings }
    \cup
    { [DefaultConfig EXCEPT !.params = [kind |-> "object", entries |-> e, pairs |-> << >>]] :
        e \in ProtoMappings }
    \cup
    { [DefaultConfig EXCEPT !.params = [kind |-> "URLSearchParams", entries |-> << >>,
                                        pairs |-> << << ProtoKey, << "1" >> >> >>]] }
    \cup
    { [DefaultConfig EXCEPT !.headers = FormHeaders, !.data = ObjectBody(e)] : e \in ProtoMappings }
    \cup
    { [DefaultConfig EXCEPT !.data = FormDataBody(ps)] : ps \in ProtoParts }
    \cup
    { [DefaultConfig EXCEPT !.headers = GetHeaders(k), !.data = d] :
        k \in {"AxiosHeaders", "plain"}, d \in {NoBody, NullBody, StringBody(FormString)} }
    \cup
    { [DefaultConfig EXCEPT !.headers = NullishGetHeaders(value), !.data = d] :
        value \in {JsNull, JsUndefined},
        d \in {StringBody(FormString), ObjectBody(KeyA :> JsNullProto)} }

OwnKeyFetchInputs ==
    { [DefaultFetchInput EXCEPT !.hasInit = TRUE, !.headers = h] :
        h \in { [kind |-> "array", entries |-> << >>,
                 pairs |-> << << ProtoKey, << "x" >> >>, << KeyA, << "1" >> >> >>] }
               \cup { [kind |-> k, entries |-> (ProtoKey :> << "x" >>) @@ (KeyA :> << "1" >>),
                       pairs |-> << >>] : k \in {"Headers", "plain"} } }
    \cup
    { [DefaultFetchInput EXCEPT !.hasInit = TRUE, !.method = Some(toUpperCase(PostLower)),
                                !.body = FormDataBody(ps)] : ps \in ProtoParts }

TranslationConfigs ==
    UrlConfigs \cup MethodConfigs \cup HeaderConfigs \cup ParamConfigs \cup BodyConfigs
        \cup RoundTripConfigs \cup OwnKeyConfigs
TranslationFetchInputs ==
    MethodFetchInputs \cup BodyFetchInputs \cup RoundTripFetchInputs \cup OwnKeyFetchInputs

\* One invocation, of either entry point, with the request-translation
\* inputs.
InitTranslation ==
    /\ InitRuntime
    /\ \/ /\ pipeline = [i \in Calls |-> IF i = 1 THEN "axios" ELSE "unused"]
          /\ \E c \in TranslationConfigs :
                config = [i \in Calls |-> IF i = 1 THEN c ELSE DefaultConfig]
          /\ fetchInput = [i \in Calls |-> DefaultFetchInput]
       \/ /\ pipeline = [i \in Calls |-> IF i = 1 THEN "fetch" ELSE "unused"]
          /\ config = [i \in Calls |-> DefaultConfig]
          /\ \E f \in TranslationFetchInputs :
                fetchInput = [i \in Calls |-> IF i = 1 THEN f ELSE DefaultFetchInput]
    /\ adapterOptions = NoAdapterOptions
    /\ signalAborted = [i \in Calls |-> FALSE]
    /\ pc = [i \in Calls |-> IF i = 1 THEN "start" ELSE "unused"]
    /\ InitFresh

\* The config of concurrent invocation i: its own url, params and body, and
\* a signal.
ConcurrentConfig(i) ==
    [DefaultConfig EXCEPT !.url = Some(<< "/" >> \o NatToChars(i)),
                          !.params = [kind |-> "object", entries |-> (KeyA :> JsNumber(i)),
                                      pairs |-> << >>],
                          !.data = StringBody(NatToChars(i)),
                          !.signal = TRUE]

ConcurrentFetchInput(i) ==
    [DefaultFetchInput EXCEPT !.url = BaseUrl \o << "/" >> \o NatToChars(i),
                              !.hasInit = TRUE,
                              !.method = Some(PostLower),
                              !.body = StringBody(NatToChars(i)),
                              !.signal = TRUE]

\* Every invocation of Calls is made on one adapter instance before any of
\* them has settled (Promise.all over client.get, e2e/api.spec.ts).
InitConcurrent ==
    /\ InitRuntime
    /\ \E p \in {"axios", "fetch"} :
          /\ pipeline = [i \in Calls |-> p]
          /\ config = [i \in Calls |-> IF p = "axios" THEN ConcurrentConfig(i) ELSE DefaultConfig]
          /\ fetchInput = [i \in Calls |-> IF p = "fetch" THEN ConcurrentFetchInput(i)
                                                         ELSE DefaultFetchInput]
    /\ adapterOptions \in AdapterOptionSets
    /\ signalAborted = [i \in Calls |-> FALSE]
    /\ pc = [i \in Calls |-> "start"]
    /\ InitFresh

(***************************************************************************)
(* The axios entry point: playwrightAdapter (axios-adapter.ts lines 33-87).*)
(***************************************************************************)
\* config.signal?.aborted, as read at line 40
PreflightAborted(i) == config[i].signal /\ signalAborted[i]

\* The promise of invocation i rejects with `thrown`.
Reject(i, thrown) ==
    /\ outcome' = [outcome EXCEPT ![i] = [NoOutcome EXCEPT !.state = "rejected", !.error = thrown]]
    /\ pc' = [pc EXCEPT ![i] = "done"]
    /\ pending' = [pending EXCEPT ![i] = "none"]

\* Mutant of CatchAndReject: the catch block dispatches the request again
\* while maxRetries allows it.
CatchAndRetry(i, error) ==
    IF adapterOptions.maxRetries.defined /\ fetchCalls[i] <= adapterOptions.maxRetries.n
    THEN /\ fetchCalls' = [fetchCalls EXCEPT ![i] = @ + 1]
         /\ pc' = [pc EXCEPT ![i] = "fetching"]
         /\ pending' = [pending EXCEPT ![i] = "none"]
         /\ UNCHANGED << fetchArgs, outcome >>
    ELSE /\ Reject(i, CatchBlock(error, i))
         /\ UNCHANGED << fetchCalls, fetchArgs >>

\* An error thrown inside the try block reaches the catch block, and the
\* promise rejects with what the catch block throws.
CatchAndReject(i, error) ==
    /\ Reject(i, CatchBlock(error, i))
    /\ UNCHANGED << fetchCalls, fetchArgs >>

\* Calls accessor `acc` of the response and awaits it.
CallAccessor(i, acc) ==
    /\ accessorCalls' = [accessorCalls EXCEPT ![i][acc] = @ + 1]
    /\ pending' = [pending EXCEPT ![i] = acc]

\* What transformRequest throws: the object literal of lines 135-140
\* translates headers, params and data in that order.
transformRequestError(cfg, fileDefined) ==
    IF transformHeadersThrows(cfg) \/ transformParamsThrows(cfg)
    THEN PlainError("new", "TypeError", "Cannot convert object to primitive value")
    ELSE IF cfg.data.kind \notin {"undefined", "null"} /\ getContentTypeThrows(cfg)
    THEN PlainError("new", "TypeError", "config.headers?.get is not a function")
    ELSE IF instanceofFileThrows(cfg.data, fileDefined)
    THEN PlainError("new", "ReferenceError", "File is not defined")
    ELSE PlainError("new", "TypeError", "Cannot convert object to primitive value")

\* Lines 36-57: url and options are built, the signal is checked, and the
\* executor is called. An exception of transformRequest or the cancellation
\* error leaves the function before the try block. Whether the runtime has
\* the global File is not the program's choice.
playwrightAdapter(i) ==
    /\ pipeline[i] = "axios"
    /\ pc[i] = "start"
    /\ \E fileDefined \in BOOLEAN :
          IF transformRequestThrows(config[i], fileDefined)
          THEN /\ Reject(i, transformRequestError(config[i], fileDefined))
               /\ UNCHANGED << signalSeen, fetchCalls, fetchArgs >>
          ELSE IF PreflightAborted(i)
          THEN /\ Reject(i, AxiosError("Request aborted", "ERR_CANCELED", i, 0, NoAxiosResponse))
               /\ signalSeen' = [signalSeen EXCEPT ![i] = "aborted"]
               /\ UNCHANGED << fetchCalls, fetchArgs >>
          ELSE /\ signalSeen' = [signalSeen EXCEPT ![i] = "clear"]
               /\ fetchCalls' = [fetchCalls EXCEPT ![i] = @ + 1]
               /\ fetchArgs' = [fetchArgs EXCEPT ![i] = AdapterFetchArgs(config[i], adapterOptions)]
               /\ pc' = [pc EXCEPT ![i] = "fetching"]
               /\ UNCHANGED << outcome, pending >>
    /\ UNCHANGED << unicodeVersion, pipeline, config, fetchInput, adapterOptions, signalAborted,
                    execResult, accessorCalls >>

\* The executor fulfils the fetch promise with a response; transformResponse
\* starts and parseResponseBody calls its first accessor (lines 59, 246-277).
AdapterFetchFulfilled(i) ==
    /\ pipeline[i] = "axios"
    /\ pc[i] = "fetching"
    /\ \E resp \in ExecutorResponses(i) :
          /\ execResult' = [execResult EXCEPT ![i] =
                                [state |-> "fulfilled", response |-> resp, error |-> "none"]]
          /\ CallAccessor(i, FirstAccessor(resp, config[i]))
    /\ pc' = [pc EXCEPT ![i] = "reading"]
    /\ UNCHANGED << unicodeVersion, pipeline, config, fetchInput, adapterOptions, signalAborted, signalSeen,
                    fetchCalls, fetchArgs, outcome >>

\* The executor rejects the fetch promise; the catch block maps the value.
AdapterFetchRejected(i) ==
    /\ pipeline[i] = "axios"
    /\ pc[i] = "fetching"
    /\ \E name \in ExecutorRejections(i) :
          /\ execResult' = [execResult EXCEPT ![i] =
                                [state |-> "rejected", response |-> NoApiResponse, error |-> name]]
          /\ CatchAndReject(i, RejectionValue(name))
    /\ UNCHANGED << unicodeVersion, pipeline, config, fetchInput, adapterOptions, signalAborted, signalSeen,
                    accessorCalls >>

\* Mutant of SettleAfterBody: the signal is read again once the body has
\* been decoded.
SettleAfterBodyHonouringAbort(i) ==
    LET resp == execResult[i].response
        axiosResponse == transformResponse(resp, config[i], i, pending[i])
        thrown == IF config[i].signal /\ signalAborted[i]
                  THEN AxiosError("Request aborted", "ERR_CANCELED", i, 0, NoAxiosResponse)
                  ELSE ValidationThrows(config[i], i, resp, axiosResponse)
    IN  IF thrown = NoError
        THEN /\ outcome' = [outcome EXCEPT ![i] =
                                [NoOutcome EXCEPT !.state = "fulfilled", !.response = axiosResponse]]
             /\ pc' = [pc EXCEPT ![i] = "done"]
             /\ pending' = [pending EXCEPT ![i] = "none"]
             /\ UNCHANGED << fetchCalls, fetchArgs >>
        ELSE CatchAndReject(i, thrown)

\* Lines 59-72 after the awaited accessor resolved: the response is built,
\* the status is validated, and the promise settles.
SettleAfterBody(i) ==
    LET resp == execResult[i].response
        axiosResponse == transformResponse(resp, config[i], i, pending[i])
        thrown == ValidationThrows(config[i], i, resp, axiosResponse)
    IN  IF thrown = NoError
        THEN /\ outcome' = [outcome EXCEPT ![i] =
                                [NoOutcome EXCEPT !.state = "fulfilled", !.response = axiosResponse]]
             /\ pc' = [pc EXCEPT ![i] = "done"]
             /\ pending' = [pending EXCEPT ![i] = "none"]
             /\ UNCHANGED << fetchCalls, fetchArgs >>
        ELSE CatchAndReject(i, thrown)

\* The awaited accessor resolves.
AdapterAccessorFulfilled(i) ==
    /\ pipeline[i] = "axios"
    /\ pc[i] = "reading"
    /\ AccessorSettles(execResult[i].response, pending[i]) = "ok"
    /\ SettleAfterBody(i)
    /\ UNCHANGED << unicodeVersion, pipeline, config, fetchInput, adapterOptions, signalAborted, signalSeen,
                    execResult, accessorCalls >>

\* Mutant of AdapterAccessorRejected: parseResponseBody has no try/catch
\* around json(), so its rejection reaches the catch block of the adapter.
AdapterAccessorRejectedWithoutFallback(i) ==
    /\ pipeline[i] = "axios"
    /\ pc[i] = "reading"
    /\ AccessorSettles(execResult[i].response, pending[i]) # "ok"
    /\ CatchAndReject(i, RejectionValue(AccessorSettles(execResult[i].response, pending[i])))
    /\ UNCHANGED << unicodeVersion, pipeline, config, fetchInput, adapterOptions, signalAborted, signalSeen,
                    execResult, accessorCalls >>

\* The awaited accessor rejects: a rejection of json() is caught inside
\* parseResponseBody, which then calls text() (lines 270-274); any other
\* rejection reaches the catch block of playwrightAdapter.
AdapterAccessorRejected(i) ==
    /\ pipeline[i] = "axios"
    /\ pc[i] = "reading"
    /\ AccessorSettles(execResult[i].response, pending[i]) # "ok"
    /\ IF pending[i] = "json"
       THEN /\ CallAccessor(i, "text")
            /\ UNCHANGED << pc, outcome, fetchCalls, fetchArgs >>
       ELSE /\ CatchAndReject(i, RejectionValue(AccessorSettles(execResult[i].response, pending[i])))
            /\ UNCHANGED accessorCalls
    /\ UNCHANGED << unicodeVersion, pipeline, config, fetchInput, adapterOptions, signalAborted, signalSeen,
                    execResult >>

(***************************************************************************)
(* The fetch entry point: playwrightFetch (fetch-adapter.ts lines 128-148).*)
(* It has no try/catch and reads no signal.                                *)
(***************************************************************************)
\* Lines 132-145: method, headers and body are translated and the executor
\* is called; an exception of transformBody rejects the promise before the
\* call.
playwrightFetch(i) ==
    /\ pipeline[i] = "fetch"
    /\ pc[i] = "start"
    /\ \E fileDefined \in BOOLEAN :
          IF transformBodyThrows(IF fetchInput[i].hasInit THEN fetchInput[i].body ELSE NoBody,
                                 fileDefined)
          THEN /\ Reject(i, PlainError("new", "ReferenceError", "File is not defined"))
               /\ UNCHANGED << fetchCalls, fetchArgs >>
          ELSE /\ fetchCalls' = [fetchCalls EXCEPT ![i] = @ + 1]
               /\ fetchArgs' = [fetchArgs EXCEPT ![i] = FetchFetchArgs(fetchInput[i], adapterOptions)]
               /\ pc' = [pc EXCEPT ![i] = "fetching"]
               /\ UNCHANGED << pending, outcome >>
    /\ UNCHANGED << unicodeVersion, pipeline, config, fetchInput, adapterOptions, signalAborted, signalSeen,
                    execResult, accessorCalls >>

\* The executor fulfils the fetch promise; toResponse calls body() (line 91).
FetchFetchFulfilled(i) ==
    /\ pipeline[i] = "fetch"
    /\ pc[i] = "fetching"
    /\ \E resp \in ExecutorResponses(i) :
          execResult' = [execResult EXCEPT ![i] =
                            [state |-> "fulfilled", response |-> resp, error |-> "none"]]
    /\ CallAccessor(i, "body")
    /\ pc' = [pc EXCEPT ![i] = "reading"]
    /\ UNCHANGED << unicodeVersion, pipeline, config, fetchInput, adapterOptions, signalAborted, signalSeen,
                    fetchCalls, fetchArgs, outcome >>

\* The executor rejects the fetch promise: the value propagates unchanged.
FetchFetchRejected(i) ==
    /\ pipeline[i] = "fetch"
    /\ pc[i] = "fetching"
    /\ \E name \in ExecutorRejections(i) :
          /\ execResult' = [execResult EXCEPT ![i] =
                                [state |-> "rejected", response |-> NoApiResponse, error |-> name]]
          /\ Reject(i, RejectionValue(name))
    /\ UNCHANGED << unicodeVersion, pipeline, config, fetchInput, adapterOptions, signalAborted, signalSeen,
                    fetchCalls, fetchArgs, accessorCalls >>

\* body() resolves: the Headers and the Response are constructed (lines
\* 92-100).
FetchBodyFulfilled(i) ==
    /\ pipeline[i] = "fetch"
    /\ pc[i] = "reading"
    /\ AccessorSettles(execResult[i].response, pending[i]) = "ok"
    /\ \E strict \in BOOLEAN, order \in KeyOrders(execResult[i].response.headers) :
          LET made == ResponseConstructor(execResult[i].response.status,
                                          StatusTextOf(execResult[i].response), strict)
          IN  IF HeadersThrows(execResult[i].response.headers)
              THEN Reject(i, PlainError("new", "TypeError", "Headers: invalid header"))
              ELSE IF made # "ok"
              THEN Reject(i, PlainError("new", made, "Response constructor: invalid init"))
              ELSE /\ outcome' = [outcome EXCEPT ![i] =
                                     [NoOutcome EXCEPT
                                        !.state = "fulfilled",
                                        !.fetchResponse =
                                            toResponse(execResult[i].response, order)]]
                   /\ pc' = [pc EXCEPT ![i] = "done"]
                   /\ pending' = [pending EXCEPT ![i] = "none"]
    /\ UNCHANGED << unicodeVersion, pipeline, config, fetchInput, adapterOptions, signalAborted, signalSeen,
                    fetchCalls, fetchArgs, execResult, accessorCalls >>

\* body() rejects: the value propagates unchanged.
FetchBodyRejected(i) ==
    /\ pipeline[i] = "fetch"
    /\ pc[i] = "reading"
    /\ AccessorSettles(execResult[i].response, pending[i]) # "ok"
    /\ Reject(i, RejectionValue(AccessorSettles(execResult[i].response, pending[i])))
    /\ UNCHANGED << unicodeVersion, pipeline, config, fetchInput, adapterOptions, signalAborted, signalSeen,
                    fetchCalls, fetchArgs, execResult, accessorCalls >>

(***************************************************************************)
(* The caller aborts the signal it handed in (AbortController.abort()).    *)
(***************************************************************************)
AbortSignal(i) ==
    /\ pipeline[i] # "unused"
    /\ HasSignal(i)
    /\ ~signalAborted[i]
    /\ signalAborted' = [signalAborted EXCEPT ![i] = TRUE]
    /\ UNCHANGED << unicodeVersion, pipeline, config, fetchInput, adapterOptions, signalSeen, pc, fetchCalls,
                    fetchArgs, execResult, accessorCalls, pending, outcome >>

Next ==
    \E i \in Calls :
        \/ playwrightAdapter(i)
        \/ AdapterFetchFulfilled(i)
        \/ AdapterFetchRejected(i)
        \/ AdapterAccessorFulfilled(i)
        \/ AdapterAccessorRejected(i)
        \/ playwrightFetch(i)
        \/ FetchFetchFulfilled(i)
        \/ FetchFetchRejected(i)
        \/ FetchBodyFulfilled(i)
        \/ FetchBodyRejected(i)
        \/ AbortSignal(i)

Spec == Init /\ [][Next]_vars

\* One invocation over the inputs of the response translators.
SpecResponse == InitResponse /\ [][Next]_vars

\* One invocation of an adapter constructed with policy options.
SpecPolicy == InitPolicy /\ [][Next]_vars

\* One invocation over the inputs of the request translators.
SpecTranslation == InitTranslation /\ [][Next]_vars

\* Concurrent invocations on one adapter instance.
SpecConcurrent == InitConcurrent /\ [][Next]_vars

(***************************************************************************)
(* Properties.                                                             *)
(***************************************************************************)
AxiosCalls == {i \in Calls : pipeline[i] = "axios"}
FetchCalls == {i \in Calls : pipeline[i] = "fetch"}

Settled(i) == pc[i] = "done"
Rejected(i) == Settled(i) /\ outcome[i].state = "rejected"
Fulfilled(i) == Settled(i) /\ outcome[i].state = "fulfilled"

\* The executor returned a response to invocation i / rejected with a value.
ExecutorReturned(i) == execResult[i].state = "fulfilled"
ExecutorRejected(i) == execResult[i].state = "rejected"

\* The accessor whose result parseResponseBody returns: text() after a
\* rejected json(), the first accessor otherwise.
FinalAccessor(resp, cfg) ==
    LET first == FirstAccessor(resp, cfg)
    IN  IF first = "json" /\ AccessorSettles(resp, "json") # "ok" THEN "text" ELSE first

\* Reading the body of `resp` ends in a rejection.
BodyReadFails(resp, cfg) == AccessorSettles(resp, FinalAccessor(resp, cfg)) # "ok"

\* The error was constructed by the adapter with code `code`.
IsAdapterError(error, code) == IsAxiosError(error) /\ error.id = "new" /\ error.code = code

\* The invocation left its first step (lines 36-57) in this transition.
Invoked(i) == pc[i] = "start" /\ pc'[i] # "start"

\* C1: an invocation of playwrightAdapter whose signal is aborted when it is
\* invoked rejects with an AxiosError ERR_CANCELED 'Request aborted' and
\* never calls requestContext.fetch.
C1_AbortedSignalCancels ==
    [][\A i \in AxiosCalls :
          (Invoked(i) /\ config[i].signal /\ signalAborted[i]) =>
              /\ outcome'[i].state = "rejected"
              /\ IsAdapterError(outcome'[i].error, "ERR_CANCELED")
              /\ outcome'[i].error.message = "Request aborted"
              /\ fetchCalls'[i] = 0]_vars

\* C2: whatever non-AxiosError value the executor rejects with, the adapter
\* rejects with an AxiosError ERR_NETWORK whose message is the value's
\* message or 'Request failed', whose cause is the value and whose config is
\* the invoking config.
C2_RejectionWrappedAsNetworkError ==
    \A i \in AxiosCalls :
        (Settled(i) /\ ExecutorRejected(i) /\ ~IsAxiosError(RejectionValue(execResult[i].error))) =>
            /\ outcome[i].state = "rejected"
            /\ IsAdapterError(outcome[i].error, "ERR_NETWORK")
            /\ outcome[i].error.message =
                  (IF RejectionValue(execResult[i].error).message = ""
                   THEN "Request failed"
                   ELSE RejectionValue(execResult[i].error).message)
            /\ outcome[i].error.cause = execResult[i].error
            /\ outcome[i].error.cfg = i

\* C3: when the executor rejects with an AxiosError, the adapter rejects
\* with that same error object, code, message, config and cause unchanged.
C3_AxiosErrorPassedThrough ==
    \A i \in AxiosCalls :
        (Settled(i) /\ ExecutorRejected(i) /\ IsAxiosError(RejectionValue(execResult[i].error))) =>
            /\ outcome[i].state = "rejected"
            /\ outcome[i].error = RejectionValue(execResult[i].error)
            /\ outcome[i].error.id = execResult[i].error

C3_Witness ==
    \E i \in AxiosCalls :
        /\ Rejected(i)
        /\ execResult[i].error = "ForeignAxiosError"
        /\ outcome[i].error.code = "ERR_NETWORK"
        /\ outcome[i].error.cfg = ForeignConfig

\* The status-validation part of C4, for a settled invocation whose
\* executor returned a response.
StatusValidationAsClaimed(i) ==
    LET resp == execResult[i].response
        verdict == ValidateStatus(config[i].validateStatus, resp.status)
    IN  /\ (Rejected(i) /\ IsAdapterError(outcome[i].error, "ERR_BAD_REQUEST"))
              <=> (config[i].validateStatus # "none" /\ verdict = "false")
        /\ (config[i].validateStatus = "none" \/ verdict = "true") =>
              /\ Fulfilled(i)
              /\ outcome[i].response.status = resp.status

\* C4 as stated: after the executor returned a response with any status,
\* the adapter rejects with a status-validation error iff validateStatus
\* was supplied and returns false; otherwise it resolves with that status.
C4_Original ==
    \A i \in AxiosCalls :
        (Settled(i) /\ ExecutorReturned(i)) => StatusValidationAsClaimed(i)


\* C5: when validateStatus rejects the status, the error reaches the caller
\* as constructed: ERR_BAD_REQUEST, message 'Request failed with status code
\* {status}', the invoking config, the executor response as request and the
\* decoded response with the executor's status.
C5_StatusErrorUnchanged ==
    \A i \in AxiosCalls :
        LET resp == execResult[i].response
        IN  (Settled(i) /\ ExecutorReturned(i) /\ ~BodyReadFails(resp, config[i])
                /\ ValidateStatus(config[i].validateStatus, resp.status) = "false") =>
                /\ outcome[i].state = "rejected"
                /\ IsAdapterError(outcome[i].error, "ERR_BAD_REQUEST")
                /\ outcome[i].error.message =
                      "Request failed with status code " \o ToString(resp.status)
                /\ (resp.status = 404 =>
                      outcome[i].error.message = "Request failed with status code 404")
                /\ outcome[i].error.cause = "none"
                /\ outcome[i].error.cfg = i
                /\ outcome[i].error.request = resp.id
                /\ outcome[i].error.response.defined
                /\ outcome[i].error.response.status = resp.status
                /\ outcome[i].error.response.data =
                      parseResponseBody(resp, config[i], FinalAccessor(resp, config[i]))

C5_Witness ==
    \E i \in AxiosCalls :
        /\ Rejected(i)
        /\ config[i].validateStatus = "success"
        /\ execResult[i].response.status = 404
        /\ outcome[i].error.code = "ERR_BAD_REQUEST"

\* C6 as stated: every typed error the adapter rejects with, passed-through
\* errors included, has the invoking config.
C6_Original ==
    \A i \in AxiosCalls :
        (Rejected(i) /\ IsAxiosError(outcome[i].error)) => outcome[i].error.cfg = i

\* C6 amended: every error the adapter constructs (Canceled, Network,
\* StatusValidation) has the invoking config; a passed-through error keeps
\* the config it came with.
C6_ConstructedErrorsCarryConfig ==
    \A i \in AxiosCalls :
        (Rejected(i) /\ IsAxiosError(outcome[i].error)) =>
            IF outcome[i].error.id = "new"
            THEN outcome[i].error.cfg = i
            ELSE outcome[i].error.cfg = RejectionValue(outcome[i].error.id).cfg

C6_Witness ==
    \E i \in AxiosCalls :
        /\ Rejected(i)
        /\ IsAdapterError(outcome[i].error, "ERR_NETWORK")
        /\ outcome[i].error.cfg = i

\* C7: every failure of either entry point reaches the caller as an
\* AxiosError.
C7_EveryFailureTyped ==
    \A i \in Calls : Rejected(i) => IsAxiosError(outcome[i].error)

\* C8: playwrightFetch called with an already aborted signal rejects with a
\* cancellation error and never calls requestContext.fetch.
C8_FetchPreflight ==
    [][\A i \in FetchCalls :
          (Invoked(i) /\ HasSignal(i) /\ signalAborted[i]) =>
              /\ outcome'[i].state = "rejected"
              /\ outcome'[i].error.code = "ERR_CANCELED"
              /\ fetchCalls'[i] = 0]_vars

\* C9: one invocation calls requestContext.fetch at most once, whatever the
\* executor's outcome and whatever maxRetries is.
C9_AtMostOneFetch == \A i \in Calls : fetchCalls[i] <= 1

C9_Witness ==
    \E i \in AxiosCalls :
        /\ Rejected(i)
        /\ ExecutorRejected(i)
        /\ adapterOptions.maxRetries = Num(2)
        /\ fetchCalls[i] = 1

\* The outcome of invocation i as a function of its config and of what the
\* executor did, for an invocation that passed the preflight check.
OutcomeWithoutAbort(i) ==
    LET resp == execResult[i].response
        final == FinalAccessor(resp, config[i])
        axiosResponse == transformResponse(resp, config[i], i, final)
        thrown ==
            IF ExecutorRejected(i) THEN RejectionValue(execResult[i].error)
            ELSE IF BodyReadFails(resp, config[i])
            THEN RejectionValue(AccessorSettles(resp, final))
            ELSE ValidationThrows(config[i], i, resp, axiosResponse)
    IN  IF thrown = NoError
        THEN [NoOutcome EXCEPT !.state = "fulfilled", !.response = axiosResponse]
        ELSE [NoOutcome EXCEPT !.state = "rejected", !.error = CatchBlock(thrown, i)]

\* C10: once the preflight check found the signal not aborted, aborting it
\* later changes nothing: the outcome is the one determined by the config
\* and the executor alone, and the adapter raises no ERR_CANCELED error.
C10_LateAbortIgnored ==
    \A i \in AxiosCalls :
        (Settled(i) /\ signalSeen[i] = "clear") =>
            /\ outcome[i] = OutcomeWithoutAbort(i)
            /\ ~IsAdapterError(outcome[i].error, "ERR_CANCELED")

C10_Witness ==
    \E i \in AxiosCalls :
        /\ Fulfilled(i)
        /\ signalSeen[i] = "clear"
        /\ signalAborted[i]

\* The url and the per-request options invocation i must hand to the
\* executor, written out from its own input.
OwnArguments(i) ==
    /\ fetchArgs[i].url = BaseUrl \o << "/" >> \o NatToChars(i)
    /\ fetchArgs[i].options.data = [defined |-> TRUE, value |-> StringBody(NatToChars(i))]
    /\ fetchArgs[i].options.method = (IF pipeline[i] = "axios" THEN toUpperCase(PostLower)
                                                              ELSE PostLower)
    /\ fetchArgs[i].options.params =
          (IF pipeline[i] = "axios" THEN SomeMap(KeyA :> JsNumber(i)) ELSE NoMap)
    /\ fetchArgs[i].options.maxRetries = adapterOptions.maxRetries

\* The result of settled invocation i comes from the executor's answer to
\* invocation i and from its own config.
OwnResult(i) ==
    LET resp == execResult[i].response
    IN  IF fetchCalls[i] = 0
        THEN /\ Rejected(i)
             /\ IsAdapterError(outcome[i].error, "ERR_CANCELED")
             /\ outcome[i].error.cfg = i
        ELSE
        /\ execResult[i].state # "none"
        /\ ExecutorReturned(i) => resp.id = i
        /\ pipeline[i] = "axios" =>
              /\ outcome[i] = OutcomeWithoutAbort(i)
              /\ Fulfilled(i) => /\ outcome[i].response.request = i
                                 /\ outcome[i].response.config = i
                                 /\ outcome[i].response.status = resp.status
              /\ (Rejected(i) /\ outcome[i].error.id = "new") => outcome[i].error.cfg = i
        /\ pipeline[i] = "fetch" =>
              /\ Fulfilled(i) =>
                    \E order \in KeyOrders(resp.headers) :
                        outcome[i].fetchResponse = toResponse(resp, order)
              /\ Rejected(i) =>
                    outcome[i].error =
                        (IF ExecutorRejected(i) THEN RejectionValue(execResult[i].error)
                         ELSE RejectionValue(AccessorSettles(resp, "body")))

\* C11: concurrent invocations on one adapter instance do not interfere:
\* each one hands the executor the url and options of its own config, each
\* settles with the result built from the executor's answer to that
\* invocation and its own config, and the adapter-level options are never
\* modified.
C11_ConcurrentIsolation ==
    /\ [](\A i \in Calls :
            /\ fetchCalls[i] > 0 => OwnArguments(i)
            /\ Settled(i) => OwnResult(i))
    /\ [][adapterOptions' = adapterOptions]_vars

\* Both invocations have settled, one fulfilled and one rejected, each with
\* its own arguments.
C11_Witness ==
    /\ Fulfilled(1) /\ outcome[1].response.request = 1
    /\ execResult[1].response.status = 404
    /\ Rejected(2) /\ ExecutorRejected(2)
    /\ fetchArgs[1].url # fetchArgs[2].url
    /\ signalAborted[1]

\* The url starts with an optional scheme (a letter, then letters, digits,
\* '+', '-' or '.', then ':') followed by '//'.
StartsWithSchemeAndSlashes(url) ==
    \/ Len(url) >= 2 /\ SubSeq(url, 1, 2) = << "/", "/" >>
    \/ \E c \in 2..(Len(url) - 2) :
          /\ url[c] = ":"
          /\ url[1] \in Letters
          /\ \A j \in 2..(c - 1) : url[j] \in Letters \cup Digits \cup {"+", "-", "."}
          /\ SubSeq(url, c + 1, c + 2) = << "/", "/" >>

IsAllSlashes(s) == \A k \in 1..Len(s) : s[k] = "/"

\* s without its trailing slashes: the prefix that does not end with '/'
\* and is followed by slashes only.
WithoutTrailingSlashes(s) ==
    CHOOSE p \in {SubSeq(s, 1, k) : k \in 0..Len(s)} :
        /\ p = << >> \/ p[Len(p)] # "/"
        /\ IsAllSlashes(SubSeq(s, Len(p) + 1, Len(s)))

\* s without its leading slashes.
WithoutLeadingSlashes(s) ==
    CHOOSE q \in {SubSeq(s, k, Len(s)) : k \in 1..(Len(s) + 1)} :
        /\ q = << >> \/ q[1] # "/"
        /\ IsAllSlashes(SubSeq(s, 1, Len(s) - Len(q)))

\* Invocation i of the axios entry point has handed its url to the executor.
UrlResolved(i) == pipeline[i] = "axios" /\ fetchCalls[i] > 0

\* C12: a url that starts with an optional scheme followed by '//' is handed
\* to the executor exactly as given, whatever baseURL is.
C12_AbsoluteUrlUnchanged ==
    \A i \in Calls :
        (UrlResolved(i) /\ StartsWithSchemeAndSlashes(OrEmpty(config[i].url))) =>
            fetchArgs[i].url = OrEmpty(config[i].url)

C12_Witness ==
    \E i \in Calls :
        /\ UrlResolved(i)
        /\ config[i].baseURL = Some(<< "b", "/" >>)
        /\ config[i].url \in {Some(<< "/", "/", "a" >>),
                              Some(<< "A", "1", "+", "-", ".", ":", "/", "/", "x" >>)}
        /\ fetchArgs[i].url = config[i].url.chars

\* C13: with a non-empty baseURL and a url that is not absolute and not
\* empty once its leading slashes are removed, the url handed to the
\* executor is baseURL without its trailing slashes, one '/', and url
\* without its leading slashes.
C13_CombinedWithOneSlash ==
    \A i \in Calls :
        LET url == OrEmpty(config[i].url)
            base == OrEmpty(config[i].baseURL)
        IN  (UrlResolved(i) /\ base # << >> /\ ~StartsWithSchemeAndSlashes(url)
                /\ WithoutLeadingSlashes(url) # << >>) =>
                fetchArgs[i].url =
                    WithoutTrailingSlashes(base) \o << "/" >> \o WithoutLeadingSlashes(url)

C13_Witness ==
    \E i \in Calls :
        /\ UrlResolved(i)
        /\ config[i].baseURL = Some(BaseUrl \o << "/", "/", "/" >>)
        /\ config[i].url = Some(<< "/", "a", "/" >>)
        /\ fetchArgs[i].url = BaseUrl \o << "/", "a", "/" >>

\* C14: with a non-absolute url whose relative part is empty once its
\* leading slashes are stripped ('' or '/'), the url handed to the executor
\* is baseURL without its trailing slashes and does not end with '/'.
C14_EmptyRelativePart ==
    \A i \in Calls :
        LET url == OrEmpty(config[i].url)
            base == OrEmpty(config[i].baseURL)
            result == fetchArgs[i].url
        IN  (UrlResolved(i) /\ ~StartsWithSchemeAndSlashes(url)
                /\ WithoutLeadingSlashes(url) = << >>) =>
                /\ result = WithoutTrailingSlashes(base)
                /\ result = << >> \/ result[Len(result)] # "/"

\* The method the caller supplied: config.method, or init.method and, when
\* it has none, the method of a Request input; empty when there is none.
SuppliedMethod(i) ==
    IF pipeline[i] = "axios" THEN OrEmpty(config[i].method)
    ELSE IF fetchInput[i].hasInit /\ OrEmpty(fetchInput[i].method) # << >>
    THEN fetchInput[i].method.chars
    ELSE IF fetchInput[i].inputKind = "Request" THEN fetchInput[i].requestMethod
    ELSE << >>

\* C15: in both entry points the method handed to the executor is not
\* empty and is the supplied method in upper case, 'GET' when none or an
\* empty one was supplied.
C15_MethodUpperCased ==
    \A i \in Calls :
        fetchCalls[i] > 0 =>
            LET method == fetchArgs[i].options.method
            IN  /\ method # << >>
                /\ \A k \in 1..Len(method) : method[k] \notin LowerLetters
                /\ method = (IF SuppliedMethod(i) = << >> THEN GetMethod
                              ELSE toUpperCase(SuppliedMethod(i)))

\* The keys of the config's header mapping whose value is neither null nor
\* undefined, and what the executor must receive for them.
HeaderEntries(i) == config[i].headers.entries
KeptHeaderKeys(i) == {k \in DOMAIN HeaderEntries(i) : HeaderEntries(i)[k] \notin {JsNull, JsUndefined}}

\* The same for an object of parameters.
ParamEntries(i) == config[i].params.entries
KeptParamKeys(i) == {k \in DOMAIN ParamEntries(i) : ParamEntries(i)[k] \notin {JsNull, JsUndefined}}

\* Header values are converted to strings.
HeaderValuesStringified(i) ==
    \A k \in DOMAIN fetchArgs[i].options.headers.map :
        fetchArgs[i].options.headers.map[k] = String(HeaderEntries(i)[k])

\* The parameters of an object: strings, numbers and booleans as they are,
\* other values converted to strings.
ParamsTranslated(i) ==
    LET params == fetchArgs[i].options.params.map
    IN  /\ DOMAIN params = KeptParamKeys(i)
        /\ \A k \in DOMAIN params :
              params[k] = (IF ParamEntries(i)[k].t \in {"string", "number", "boolean"}
                           THEN ParamEntries(i)[k]
                           ELSE JsString(String(ParamEntries(i)[k])))

\* Invocation i of the axios entry point translated its config.
Translated(i) == pipeline[i] = "axios" /\ fetchCalls[i] > 0

\* C16: the headers and the parameters handed to the executor
\* omit exactly the keys whose value is null or undefined and keep every
\* other key, header values as strings, parameter values as they are when
\* string, number or boolean and as strings otherwise.
C16_ExactlyNullishKeysOmitted ==
    \A i \in Calls :
        Translated(i) =>
            /\ DOMAIN fetchArgs[i].options.headers.map = KeptHeaderKeys(i)
            /\ HeaderValuesStringified(i)
            /\ config[i].params.kind = "object" => ParamsTranslated(i)

\* C17: the parameters handed to the executor are either absent or a
\* mapping with at least one key, whatever the shape of config.params.
C17_ParamsNeverEmpty ==
    \A i \in Calls :
        (Translated(i) /\ fetchArgs[i].options.params.defined) =>
            DOMAIN fetchArgs[i].options.params.map # {}

\* The body the caller supplied to invocation i.
SuppliedBody(i) ==
    IF pipeline[i] = "axios" THEN config[i].data
    ELSE IF fetchInput[i].hasInit THEN fetchInput[i].body
    ELSE NoBody

\* The body fields that are defined in the options handed to the executor.
BodyFields(i) == {f \in {"data", "form", "multipart"} : fetchArgs[i].options[f].defined}

\* C18: in both pipelines the options handed to the executor have at most
\* one of data, form and multipart defined: exactly one when the body is
\* present, none when it is undefined or null.
C18_OneBodyField ==
    \A i \in Calls :
        fetchCalls[i] > 0 =>
            /\ Cardinality(BodyFields(i)) <= 1
            /\ Cardinality(BodyFields(i)) =
                  (IF SuppliedBody(i).kind \in {"undefined", "null"} THEN 0 ELSE 1)

\* The fetch codec has turned a string body with a form-urlencoded content
\* type into form alone.
C18_Witness ==
    \E i \in Calls :
        /\ pipeline[i] = "fetch"
        /\ fetchCalls[i] > 0
        /\ SuppliedBody(i) = StringBody(FormString)
        /\ BodyFields(i) = {"form"}

\* The Content-Type the headers of invocation i declare: the values under
\* the names that are Content-Type in any letter case, lower-cased, whatever
\* the container of the headers is.
DeclaredContentTypes(i) ==
    IF pipeline[i] = "axios"
    THEN {toLowerCase(config[i].headers.entries[k].s) :
            k \in {k \in DOMAIN config[i].headers.entries :
                        /\ toLowerCase(k) = ContentTypeLower
                        /\ config[i].headers.entries[k].t = "string"}}
    ELSE IF ~fetchInput[i].hasInit THEN {}
    ELSE {toLowerCase(fetchInput[i].headers.entries[k]) :
            k \in {k \in DOMAIN fetchInput[i].headers.entries : toLowerCase(k) = ContentTypeLower}}
         \cup
         {toLowerCase(fetchInput[i].headers.pairs[j][2]) :
            j \in {j \in 1..Len(fetchInput[i].headers.pairs) :
                        toLowerCase(fetchInput[i].headers.pairs[j][1]) = ContentTypeLower}}

Declares(i, mediaType) == \E ct \in DeclaredContentTypes(i) : includes(ct, mediaType)

\* The rule of the decision order that applies to invocation i: the first
\* of the six that matches.
DecisionRule(i) ==
    LET data == config[i].data
    IN  CASE data.kind \in {"undefined", "null"} -> 1
          [] data.kind = "FormData" -> 2
          [] data.kind = "URLSearchParams" -> 3
          [] Declares(i, FormUrlEncoded) /\ data.kind \in {"string", "object", "Buffer"} -> 4
          [] Declares(i, MultipartFormData) /\ data.kind = "object" -> 5
          [] OTHER -> 6

\* C19: transformData chooses the body representation by the first rule
\* that matches: (1) null or undefined gives no field, (2) FormData gives
\* multipart, (3) URLSearchParams gives form, (4) a declared form-urlencoded
\* content type with a string or object body gives form, (5) a declared
\* multipart/form-data content type with a non-binary object gives multipart
\* holding that object, (6) anything else gives data holding the body.
C19_DecisionOrder ==
    \A i \in Calls :
        Translated(i) =>
            LET rule == DecisionRule(i)
                options == fetchArgs[i].options
            IN  /\ BodyFields(i) = (CASE rule = 1 -> {}
                                      [] rule \in {2, 5} -> {"multipart"}
                                      [] rule \in {3, 4} -> {"form"}
                                      [] OTHER -> {"data"})
                /\ rule = 5 => options.multipart.map = config[i].data.entries
                /\ rule = 6 => options.data.value = config[i].data

\* C20: in both pipelines, when the headers declare a Content-Type that
\* contains application/x-www-form-urlencoded (value compared without
\* regard to case, name in any letter case, headers in a header collection
\* or a plain mapping) and the body is a string, the executor receives the
\* body parsed as a query string in form ('a=1&b=2' gives {a: '1', b: '2'})
\* and neither data nor multipart.
C20_FormUrlEncodedString ==
    \A i \in Calls :
        (fetchCalls[i] > 0 /\ SuppliedBody(i).kind = "string" /\ Declares(i, FormUrlEncoded)) =>
            /\ BodyFields(i) = {"form"}
            /\ fetchArgs[i].options.form.map = fromEntries(URLSearchParamsOf(SuppliedBody(i).chars))
            /\ SuppliedBody(i).chars = FormString =>
                  fetchArgs[i].options.form.map =
                      (KeyA :> JsString(<< "1" >>)) @@ (<< "b" >> :> JsString(<< "2" >>))

\* The status text the fixed table holds for the status codes of Statuses;
\* 418 and 999 are not in the table.
TableText(status) ==
    CASE status = 200 -> "OK"
      [] status = 204 -> "No Content"
      [] status = 404 -> "Not Found"
      [] status = 500 -> "Internal Server Error"
      [] OTHER -> "Unknown"

\* The status text the claim of C21 expects for a response of the executor.
ExpectedStatusText(resp) ==
    IF resp.statusText # << >> THEN resp.statusText ELSE Chars(TableText(resp.status))

\* The status texts invocation i shows of the executor's response: that of
\* the AxiosResponse it resolved with or attached to its status-validation
\* error.
ProducedStatusTexts(i) ==
    (IF Fulfilled(i) /\ pipeline[i] = "axios" THEN {outcome[i].response.statusText} ELSE {})
    \cup (IF Rejected(i) /\ outcome[i].error.response.defined
          THEN {outcome[i].error.response.statusText} ELSE {})

\* C21: for every response of the executor whose body can be read, in both
\* pipelines, the statusText of the translated response is never empty: the
\* executor's status text when that is not empty, otherwise the table's
\* entry for the status (204 gives 'No Content'), and 'Unknown' for a
\* status that is not in the table (999). On the fetch entry point the
\* translated response is the Response the invocation resolves with.
C21_StatusTextOfEveryResponse ==
    \A i \in Calls :
        (Settled(i) /\ ExecutorReturned(i) /\ ~execResult[i].response.disposed) =>
            IF pipeline[i] = "fetch"
            THEN /\ Fulfilled(i)
                 /\ outcome[i].fetchResponse.statusText # << >>
                 /\ outcome[i].fetchResponse.statusText
                        = ExpectedStatusText(execResult[i].response)
            ELSE \A statusText \in ProducedStatusTexts(i) :
                    /\ statusText # << >>
                    /\ statusText = ExpectedStatusText(execResult[i].response)

\* The response's content type declares JSON.
DeclaresJson(resp) ==
    /\ ContentTypeLower \in DOMAIN resp.headers
    /\ includes(resp.headers[ContentTypeLower], ApplicationJson)

\* The data the claim of C22 expects: the parsed value when JSON is declared
\* and the text parses, the raw text otherwise.
JsonOrRawText(resp) ==
    [kind |-> IF DeclaresJson(resp) /\ resp.text \in ValidJsonTexts THEN "json" ELSE "text",
     text |-> resp.text, type |-> << >>, byteLength |-> 0]

\* C22: with responseType 'json' or unset the content of the body never
\* makes decoding fail: declared JSON that parses gives the parsed value,
\* declared JSON that does not parse gives the raw text and the invocation
\* goes on, and without a JSON content type no parse is attempted and the
\* data is the raw text.
C22_JsonFallsBackToText ==
    \A i \in AxiosCalls :
        LET resp == execResult[i].response
            verdict == ValidateStatus(config[i].validateStatus, resp.status)
        IN  (Settled(i) /\ ExecutorReturned(i) /\ ~resp.disposed
                /\ config[i].responseType \in {"", "json"}) =>
                /\ Rejected(i) => verdict \in {"false", "throws", "throwsNull"}
                /\ Fulfilled(i) => outcome[i].response.data = JsonOrRawText(resp)
                /\ verdict = "false" => outcome[i].error.response.data = JsonOrRawText(resp)
                /\ ~DeclaresJson(resp) => accessorCalls[i].json = 0

C22_Witness ==
    \E i \in AxiosCalls :
        /\ Fulfilled(i)
        /\ config[i].responseType = ""
        /\ DeclaresJson(execResult[i].response)
        /\ execResult[i].response.text = << "o", "k" >>
        /\ outcome[i].response.data =
              [kind |-> "text", text |-> << "o", "k" >>, type |-> << >>, byteLength |-> 0]

\* The accessor calls made on the executor's response of invocation i.
AccessorCallCount(i) == accessorCalls[i].body + accessorCalls[i].text + accessorCalls[i].json

\* C28: one response translation calls exactly one of body(), text() and
\* json(), exactly once, for every responseType, content type and body, also
\* when JSON parsing fails.
C28_BodyReadOnce ==
    \A i \in Calls :
        /\ AccessorCallCount(i) <= 1
        /\ (Settled(i) /\ ExecutorReturned(i)) => AccessorCallCount(i) = 1

\* The value the claim of C23 expects for one policy knob: the adapter-level
\* override, else the config's own value, else nothing.
OverrideElseConfig(override, own) == IF override.defined THEN override ELSE own

\* C23: for maxRedirects, ignoreHTTPSErrors and maxRetries the options
\* handed to the executor carry the adapter-level override when there is
\* one, otherwise the config's value of the same field, and omit the field
\* when neither is given.
C23_PolicyKnobPrecedence ==
    \A i \in Calls :
        Translated(i) =>
            LET options == fetchArgs[i].options
            IN  /\ options.maxRedirects =
                      OverrideElseConfig(adapterOptions.maxRedirects, config[i].maxRedirects)
                /\ options.ignoreHTTPSErrors =
                      OverrideElseConfig(adapterOptions.ignoreHTTPSErrors,
                                         config[i].ignoreHTTPSErrors)
                /\ options.maxRetries =
                      OverrideElseConfig(adapterOptions.maxRetries, config[i].maxRetries)

\* C24: the options carry a timeout exactly when the config's timeout is
\* strictly positive, and then the config's timeout; zero, a negative value
\* and an absent timeout give no timeout field.
C24_TimeoutOnlyWhenPositive ==
    \A i \in Calls :
        Translated(i) =>
            LET timeout == fetchArgs[i].options.timeout
            IN  /\ timeout.defined <=> (config[i].timeout.defined /\ config[i].timeout.n > 0)
                /\ timeout.defined => timeout = config[i].timeout

C24_Witness ==
    \E i \in Calls :
        /\ Translated(i)
        /\ \/ config[i].timeout = Num(0) /\ ~fetchArgs[i].options.timeout.defined
           \/ config[i].timeout = Num(5) /\ fetchArgs[i].options.timeout = Num(5)

\* C25: the failOnStatusCode that playwrightAdapter passes to the executor
\* is the adapter-level one when the adapter was constructed with one and
\* false otherwise, never undefined.
C25_FailOnStatusCodeDefaultsToFalse ==
    \A i \in Calls :
        Translated(i) =>
            LET passed == fetchArgs[i].options.failOnStatusCode
            IN  /\ passed.defined
                /\ passed = IF adapterOptions.failOnStatusCode.defined
                            THEN adapterOptions.failOnStatusCode
                            ELSE Bool(FALSE)

C25_Witness ==
    \E i \in Calls :
        /\ Translated(i)
        /\ ~adapterOptions.failOnStatusCode.defined
        /\ fetchArgs[i].options.failOnStatusCode = Bool(FALSE)

\* The name/value pairs a form mapping holds.
FormPairsOf(form) == {<< k, form.map[k].s >> : k \in DOMAIN form.map}

\* The form handed to the executor holds exactly the pairs ps, as strings.
FormHoldsExactly(i, ps) ==
    LET form == fetchArgs[i].options.form
    IN  /\ form.defined
        /\ \A k \in DOMAIN form.map : form.map[k].t = "string"
        /\ FormPairsOf(form) = Range(ps)

\* C26: round trip of form bodies: the pairs of a collection of string
\* name/value pairs, encoded as a URL-encoded string sent with a
\* form-urlencoded content type or held in a URLSearchParams, are exactly
\* the pairs of the form handed to the executor, with string values.
C26_FormRoundTrip ==
    \A i \in Calls :
        fetchCalls[i] > 0 =>
            LET body == SuppliedBody(i)
            IN  /\ body.kind = "URLSearchParams" => FormHoldsExactly(i, body.pairs)
                /\ (body.kind = "string" /\ Declares(i, FormUrlEncoded)) =>
                      \A ps \in RoundTripPairs :
                          body.chars = EncodeForm(ps) => FormHoldsExactly(i, ps)

\* C27: playwrightAdapter runs the cancellation check, then buildUrl and
\* transformRequest, then the executor call, then the response translation,
\* then the status validation: an invocation that has left its first step
\* has read the signal whatever its config holds, one whose signal was seen
\* aborted ran no later step and is rejected as canceled, the executor is
\* called only after a clear check, an accessor only on a returned
\* response, and the invocation resolves only after an accessor was read.
C27_StepOrder ==
    \A i \in AxiosCalls :
        /\ pc[i] # "start" => signalSeen[i] # "unchecked"
        /\ signalSeen[i] = "aborted" =>
              /\ fetchCalls[i] = 0
              /\ Rejected(i)
              /\ IsAdapterError(outcome[i].error, "ERR_CANCELED")
        /\ fetchCalls[i] > 0 => signalSeen[i] = "clear"
        /\ AccessorCallCount(i) > 0 => ExecutorReturned(i)
        /\ Fulfilled(i) => AccessorCallCount(i) > 0

\* The multipart entry the claim of C29 expects for one FormData field.
ExpectedMultipartEntry(part) ==
    IF part.isBlob
    THEN MultipartFile(IF part.isFile THEN part.fileName ELSE BlobName,
                       IF part.type = << >> THEN OctetStream ELSE part.type,
                       part.blob)
    ELSE MultipartString(part.text)

\* C29: in both pipelines a FormData body gives a multipart mapping in
\* which every non-file field is its string and every file-like field is
\* {name, mimeType, buffer}, name being the file's name or 'blob' and
\* mimeType the declared type or 'application/octet-stream' when the type
\* is empty, so that both codecs give the same mapping for the same
\* FormData.
C29_FormDataToMultipart ==
    \A i \in Calls :
        (fetchCalls[i] > 0 /\ SuppliedBody(i).kind = "FormData") =>
            LET parts == SuppliedBody(i).parts
                multipart == fetchArgs[i].options.multipart
                fields == {parts[j].key : j \in 1..Len(parts)}
            IN  /\ multipart.defined
                /\ DOMAIN multipart.map = fields
                /\ \A k \in fields :
                      multipart.map[k] = ExpectedMultipartEntry(LastPart(parts, k))

\* The value thrown after the executor returned to invocation i, other than
\* an AxiosError: the rejection of an accessor of a disposed response, or
\* what the validateStatus predicate throws; "none" when there is none.
ThrownAfterResponse(i) ==
    LET resp == execResult[i].response
        verdict == ValidateStatus(config[i].validateStatus, resp.status)
    IN  IF resp.disposed THEN "DisposedError"
        ELSE IF verdict = "throws" THEN "PredicateError"
        ELSE IF verdict = "throwsNull" THEN "null"
        ELSE "none"

\* C30: a value that is not an AxiosError and is thrown after the executor
\* returned a response (an accessor rejecting while the body is decoded,
\* the absorbed JSON parse failure aside, or the validateStatus predicate
\* throwing) makes playwrightAdapter reject with an AxiosError ERR_NETWORK
\* holding the invoking config and the thrown value as cause, and the
\* executor is not called again.
C30_LateExceptionWrapped ==
    \A i \in AxiosCalls :
        (Settled(i) /\ ExecutorReturned(i) /\ ThrownAfterResponse(i) # "none") =>
            /\ Rejected(i)
            /\ IsAdapterError(outcome[i].error, "ERR_NETWORK")
            /\ outcome[i].error.cfg = i
            /\ outcome[i].error.cause = ThrownAfterResponse(i)
            /\ fetchCalls[i] = 1

====
